---- MODULE Spec2Model ----
(***************************************************************************)
(* Model of protos/http/http.go: the incremental HTTP/1.x message parser,  *)
(* the per-direction streams kept in the flow's private data, the          *)
(* transaction table with its timeout timers, the credential scrubbing and *)
(* the publication of transactions.                                        *)
(*                                                                         *)
(* A byte is a one-character string; a []byte or Go string is a sequence   *)
(* of bytes.  Go indices are 0-based: s[lo:hi] is Slice(s, lo, hi).        *)
(***************************************************************************)
EXTENDS Integers, Sequences, FiniteSets, TLC

\* nil: no stream, no message, no transaction, no map
Nil == [nil |-> TRUE]

(***************************************************************************)
(* Byte strings the code names as literals.                                *)
(***************************************************************************)
CRLF == <<"\r", "\n">>
b_HTTP == <<"H", "T", "T", "P", "/">>
b_content_length == <<"c", "o", "n", "t", "e", "n", "t", "-", "l", "e", "n", "g", "t", "h">>
b_transfer_encoding == <<"t", "r", "a", "n", "s", "f", "e", "r", "-", "e", "n", "c", "o", "d", "i", "n", "g">>
b_connection == <<"c", "o", "n", "n", "e", "c", "t", "i", "o", "n">>
b_chunked == <<"c", "h", "u", "n", "k", "e", "d">>
b_close == <<"c", "l", "o", "s", "e">>
b_keep_alive == <<"k", "e", "e", "p", "-", "a", "l", "i", "v", "e">>
b_authorization == <<"a", "u", "t", "h", "o", "r", "i", "z", "a", "t", "i", "o", "n">>
auth_text == <<"A", "u", "t", "h", "o", "r", "i", "z", "a", "t", "i", "o", "n", ":">>
b_content_type == <<"c", "o", "n", "t", "e", "n", "t", "-", "t", "y", "p", "e">>
b_urlencoded == <<"u", "r", "l", "e", "n", "c", "o", "d", "e", "d">>
b_cookie == <<"c", "o", "o", "k", "i", "e">>
b_set_cookie == <<"s", "e", "t", "-", "c", "o", "o", "k", "i", "e">>
b_star == <<"*">>

(***************************************************************************)
(* Go's slices, the bytes / strings / strconv / fmt helpers the code calls *)
(***************************************************************************)
MinOf(S) == CHOOSE x \in S : \A y \in S : x <= y
MaxOf(S) == CHOOSE x \in S : \A y \in S : x >= y

\* s[lo:hi]
Slice(s, lo, hi) == SubSeq(s, lo + 1, hi)
\* s[lo:]
SliceFrom(s, lo) == SubSeq(s, lo + 1, Len(s))

\* bytes.Index(s, sep): the first index of sep in s, or -1
bytes_Index(s, sep) ==
    LET at == {i \in 0..(Len(s) - Len(sep)) : Slice(s, i, i + Len(sep)) = sep}
    IN  IF at = {} THEN -1 ELSE MinOf(at)

\* bytes.LastIndex(s, sep)
bytes_LastIndex(s, sep) ==
    LET at == {i \in 0..(Len(s) - Len(sep)) : Slice(s, i, i + Len(sep)) = sep}
    IN  IF at = {} THEN -1 ELSE MaxOf(at)

\* bytes.IndexAny(s, chars): the first index of any byte of the set chars
bytes_IndexAny(s, chars) ==
    LET at == {i \in 0..(Len(s) - 1) : s[i + 1] \in chars}
    IN  IF at = {} THEN -1 ELSE MinOf(at)

\* strings.Contains(s, sub)
strings_Contains(s, sub) == bytes_Index(s, sub) # -1

\* bytes.Trim(s, cutset) and strings.Trim(s, cutset)
bytes_Trim(s, cutset) ==
    LET keep == {i \in 1..Len(s) : s[i] \notin cutset}
    IN  IF keep = {} THEN <<>> ELSE SubSeq(s, MinOf(keep), MaxOf(keep))

Uppers == <<"A", "B", "C", "D", "E", "F", "G", "H", "I", "J", "K", "L", "M",
            "N", "O", "P", "Q", "R", "S", "T", "U", "V", "W", "X", "Y", "Z">>
Lowers == <<"a", "b", "c", "d", "e", "f", "g", "h", "i", "j", "k", "l", "m",
            "n", "o", "p", "q", "r", "s", "t", "u", "v", "w", "x", "y", "z">>
LowerByte(c) ==
    IF \E i \in 1..26 : Uppers[i] = c THEN Lowers[CHOOSE i \in 1..26 : Uppers[i] = c] ELSE c
\* strings.ToLower(s)
strings_ToLower(s) == [i \in 1..Len(s) |-> LowerByte(s[i])]

Digits == <<"0", "1", "2", "3", "4", "5", "6", "7", "8", "9">>
HexDigits == <<"0", "1", "2", "3", "4", "5", "6", "7", "8", "9",
               "a", "b", "c", "d", "e", "f", "A", "B", "C", "D", "E", "F">>
IsDigit(c) == \E i \in 1..10 : Digits[i] = c
DigitVal(c) == (CHOOSE i \in 1..10 : Digits[i] = c) - 1
IsHex(c) == \E i \in 1..22 : HexDigits[i] = c
HexVal(c) == LET i == CHOOSE j \in 1..22 : HexDigits[j] = c
             IN  IF i <= 16 THEN i - 1 ELSE i - 7

RECURSIVE DecVal(_)
DecVal(s) == IF s = <<>> THEN 0 ELSE 10 * DecVal(SubSeq(s, 1, Len(s) - 1)) + DigitVal(s[Len(s)])

\* strconv.Atoi(s) with the error dropped (n, _ := strconv.Atoi): 0 when s is no
\* signed decimal number
strconv_Atoi(s) ==
    LET signed == s # <<>> /\ s[1] \in {"+", "-"}
        digits == IF signed THEN Tail(s) ELSE s
    IN  IF digits = <<>> \/ \E i \in 1..Len(digits) : ~IsDigit(digits[i]) THEN 0
        ELSE IF signed /\ s[1] = "-" THEN 0 - DecVal(digits) ELSE DecVal(digits)

RECURSIVE HexValOf(_)
HexValOf(s) == IF s = <<>> THEN 0 ELSE 16 * HexValOf(SubSeq(s, 1, Len(s) - 1)) + HexVal(s[Len(s)])

\* fmt.Sscanf(line, "%x", &n): leading blanks are skipped, a sign is accepted, the
\* hexadecimal digits up to the first other byte are the number; no digit is an error
SkipBlanks(line) ==
    LET nb == {i \in 1..Len(line) : line[i] \notin {" ", "\t"}}
    IN  IF nb = {} THEN <<>> ELSE SubSeq(line, MinOf(nb), Len(line))
HexPrefix(rest) ==
    LET stop == {i \in 1..Len(rest) : ~IsHex(rest[i])}
    IN  IF stop = {} THEN rest ELSE SubSeq(rest, 1, MinOf(stop) - 1)
ScanNumber(negative, digits) ==
    IF digits = <<>> THEN [err |-> TRUE, n |-> 0]
    ELSE [err |-> FALSE, n |-> IF negative THEN 0 - HexValOf(digits) ELSE HexValOf(digits)]
ScanSigned(body) ==
    IF body # <<>> /\ body[1] \in {"+", "-"} THEN ScanNumber(body[1] = "-", HexPrefix(Tail(body)))
    ELSE ScanNumber(FALSE, HexPrefix(body))
Sscanf_x(line) == ScanSigned(SkipBlanks(line))

WhiteSpace == {" ", "\t", "\n", "\r"}
\* bytes.Fields(s): the maximal runs of non-space bytes, in order
RECURSIVE bytes_Fields(_)
bytes_Fields(s) ==
    LET nb == {i \in 1..Len(s) : s[i] \notin WhiteSpace}
    IN  IF nb = {} THEN <<>>
        ELSE LET from == MinOf(nb)
                 sp   == {i \in from..Len(s) : s[i] \in WhiteSpace}
                 to   == IF sp = {} THEN Len(s) + 1 ELSE MinOf(sp)
             IN  <<SubSeq(s, from, to - 1)>> \o bytes_Fields(SubSeq(s, to, Len(s)))

\* strings.Split(s, sep) for a one-byte separator
RECURSIVE strings_Split(_, _)
strings_Split(s, sep) ==
    LET at == {i \in 1..Len(s) : s[i] = sep}
    IN  IF at = {} THEN <<s>>
        ELSE <<SubSeq(s, 1, MinOf(at) - 1)>> \o strings_Split(SubSeq(s, MinOf(at) + 1, Len(s)), sep)

\* uint8(n), uint16(n)
Uint8(n) == n % 256
Uint16(n) == n % 65536

\* Go's integer division truncates toward zero
GoDiv(a, b) == IF a >= 0 THEN a \div b ELSE 0 - ((0 - a) \div b)

(***************************************************************************)
(* The state                                                               *)
(***************************************************************************)
VARIABLES
    cfg,              \* the Http configuration and config.ConfigSingleton, set at start
    priv,             \* the flow's private data (httpPrivateData.Data), held by the reassembler
    transactionsMap,  \* Http.transactionsMap
    timers,           \* the time.AfterFunc timers created so far
    results,          \* Http.results, the channel to the sink
    worker,           \* where the worker goroutine is: idle, or inside a handler
    now,              \* the clock, in microseconds
    wire,             \* the bytes of each direction the reassembler has still to deliver
    obs               \* history: what was published, warned about, dispatched, recovered

vars == <<cfg, priv, transactionsMap, timers, results, worker, now, wire, obs>>

\* const ( START = iota ... )
START == 0
FLINE == 1
HEADERS == 2
BODY == 3
BODY_CHUNKED_START == 4
BODY_CHUNKED == 5
BODY_CHUNKED_WAIT_FINAL_CRLF == 6

\* a map[string]string, and its reads and writes
EmptyMap == <<>>
MapGet(h, k) == IF k \in DOMAIN h THEN h[k] ELSE <<>>
MapPut(h, k, v) == [x \in (DOMAIN h) \cup {k} |-> IF x = k THEN v ELSE h[x]]

\* &HttpMessage{Ts: pkt.Ts}
HttpMessage(ts) ==
    [Ts |-> ts, hasContentLength |-> FALSE, headerOffset |-> 0, bodyOffset |-> 0,
     version_major |-> 0, version_minor |-> 0, connection |-> <<>>,
     chunked_length |-> 0, chunked_body |-> <<>>,
     IsRequest |-> FALSE, RequestUri |-> <<>>, Method |-> <<>>,
     StatusCode |-> 0, StatusPhrase |-> <<>>, Real_ip |-> <<>>,
     ContentLength |-> 0, TransferEncoding |-> <<>>, Headers |-> EmptyMap,
     start |-> 0, end |-> 0]

\* &HttpStream{data: pkt.Payload, message: &HttpMessage{Ts: pkt.Ts}}; arrived is
\* history: the timestamp of the segment that carried each byte of data
HttpStream(payload, ts) ==
    [data |-> payload, parseOffset |-> 0, parseState |-> START, bodyReceived |-> 0,
     message |-> HttpMessage(ts), arrived |-> [i \in 1..Len(payload) |-> ts]]

(***************************************************************************)
(* The parser.  A step of it yields the stream as it leaves it, the two    *)
(* results (ok, complete) of messageParser, cont (the for loop goes on)    *)
(* and panic (a slice bound was out of range).                             *)
(***************************************************************************)
Step(s, cont, ok, complete) ==
    [s |-> s, cont |-> cont, ok |-> ok, complete |-> complete, panic |-> FALSE]
Panic(s) == [s |-> s, cont |-> FALSE, ok |-> FALSE, complete |-> FALSE, panic |-> TRUE]

parseVersion(s) ==
    IF Len(s) < 3 THEN [major |-> 0, minor |-> 0, err |-> TRUE]
    ELSE [major |-> Uint8(strconv_Atoi(<<s[1]>>)), minor |-> Uint8(strconv_Atoi(<<s[3]>>)),
          err |-> FALSE]

parseResponseStatus(s) ==
    LET p == bytes_Index(s, <<" ">>)
        q == bytes_LastIndex(s, <<" ">>)
    IN  IF p = -1 THEN [code |-> 0, phrase |-> <<>>, err |-> TRUE]
        ELSE [code |-> Uint16(strconv_Atoi(Slice(s, 0, p))), phrase |-> SliceFrom(s, q + 1),
              err |-> FALSE]

\* the header fields parseHeader lifts out of a header line
LiftHeader(m, headerName, headerVal) ==
    [m EXCEPT
        !.ContentLength    = IF headerName = b_content_length THEN strconv_Atoi(headerVal) ELSE @,
        !.hasContentLength = IF headerName = b_content_length THEN TRUE ELSE @,
        !.TransferEncoding = IF headerName = b_transfer_encoding THEN headerVal ELSE @,
        !.connection       = IF headerName = b_connection THEN headerVal ELSE @,
        !.Real_ip          = IF Len(cfg.Real_ip_header) > 0 /\ headerName = cfg.Real_ip_header
                                 THEN headerVal ELSE @]

\* the header-selection policy of parseHeader: what the header map becomes
KeepHeader(headers, headerName, headerVal) ==
    IF ~cfg.Send_headers THEN headers
    ELSE IF ~cfg.Send_all_headers /\ headerName \notin cfg.Headers_whitelist THEN headers
    ELSE IF headerName \in DOMAIN headers
        THEN MapPut(headers, headerName, headers[headerName] \o <<",", " ">> \o headerVal)
    ELSE MapPut(headers, headerName, headerVal)

\* parseHeader once the end of the value is known: the header is recorded
StoreHeader(m, headerName, headerVal) ==
    [LiftHeader(m, headerName, headerVal) EXCEPT
        !.Headers = KeepHeader(@, headerName, headerVal)]

\* the loop of parseHeader that looks for the end of the value, from p; q is
\* bytes.Index(data[p:], "\r\n")
RECURSIVE parseHeaderFrom(_, _, _, _)
parseHeaderAt(m, data, i, p, q) ==
    IF q = -1 THEN [m |-> m, ok |-> TRUE, complete |-> FALSE, offset |-> 0]
    \* after p += q, data[p+1] is the byte after the "\r" found at p
    ELSE IF Len(data) > p + q /\ data[p + q + 2] \in {" ", "\t"}
        THEN parseHeaderFrom(m, data, i, p + q + 2)
    ELSE [m |-> StoreHeader(m, strings_ToLower(Slice(data, 0, i)),
                            bytes_Trim(Slice(data, i + 1, p + q), {" ", "\t"})),
          ok |-> TRUE, complete |-> TRUE, offset |-> p + q + 2]

parseHeaderFrom(m, data, i, p) ==
    IF ~(p < Len(data)) THEN [m |-> m, ok |-> TRUE, complete |-> FALSE, offset |-> Len(data)]
    ELSE parseHeaderAt(m, data, i, p, bytes_Index(SliceFrom(data, p), CRLF))

parseHeaderColon(m, data, i) ==
    IF i = -1 THEN [m |-> m, ok |-> TRUE, complete |-> FALSE, offset |-> 0]
    ELSE parseHeaderFrom(m, data, i, i + 1)

parseHeader(m, data) == parseHeaderColon(m, data, bytes_Index(data, <<":">>))

\* case START of messageParser, from the version on: v is what parseVersion returns
state_start_version(s, v, i) ==
    Step([s EXCEPT !.parseOffset = i + 2, !.parseState = HEADERS,
                   !.message.version_major = IF v.err THEN 1 ELSE v.major,
                   !.message.version_minor = IF v.err THEN 0 ELSE v.minor,
                   !.message.headerOffset = i + 2],
         TRUE, TRUE, FALSE)

\* case START, a status line: st is what parseResponseStatus returns
state_start_response(s, fline, st, i) ==
    IF st.err
        THEN Step([s EXCEPT !.message.IsRequest = FALSE, !.message.StatusCode = st.code,
                            !.message.StatusPhrase = st.phrase],
                  FALSE, FALSE, FALSE)
    ELSE state_start_version([s EXCEPT !.message.IsRequest = FALSE,
                                       !.message.StatusCode = st.code,
                                       !.message.StatusPhrase = st.phrase],
                             parseVersion(Slice(fline, 5, 8)), i)

\* case START, a request line: slices is bytes.Fields(fline); capLimited: the
\* tokens bytes.Fields returns have no capacity beyond their length (Go 1.10 and later)
state_start_request(s, slices, i, capLimited) ==
    IF Len(slices) # 3 THEN Step(s, FALSE, FALSE, FALSE)
    ELSE IF Len(slices[3]) < 5                \* slices[2][:5]
        THEN IF capLimited
                 THEN Panic([s EXCEPT !.message.Method = slices[1],
                                      !.message.RequestUri = slices[2]])
             ELSE Step([s EXCEPT !.message.Method = slices[1],
                                 !.message.RequestUri = slices[2]],
                       FALSE, FALSE, FALSE)
    ELSE IF Slice(slices[3], 0, 5) = b_HTTP
        THEN state_start_version([s EXCEPT !.message.Method = slices[1],
                                           !.message.RequestUri = slices[2],
                                           !.message.IsRequest = TRUE],
                                 parseVersion(SliceFrom(slices[3], 5)), i)
    ELSE Step([s EXCEPT !.message.Method = slices[1], !.message.RequestUri = slices[2]],
              FALSE, FALSE, FALSE)

\* case START, the first line fline
state_start_line(s, fline, i, capLimited) ==
    IF Len(fline) < 8 THEN Step(s, FALSE, FALSE, FALSE)
    ELSE IF Slice(fline, 0, 5) = b_HTTP
        THEN IF Len(fline) < 9 THEN Panic(s)    \* fline[9:]
             ELSE state_start_response(s, fline, parseResponseStatus(SliceFrom(fline, 9)), i)
    ELSE state_start_request(s, bytes_Fields(fline), i, capLimited)

\* case START, i is bytes.Index(s.data[s.parseOffset:], "\r\n")
state_start_at(s, i, capLimited) ==
    IF i = -1 THEN Step(s, FALSE, TRUE, FALSE)
    ELSE IF s.parseOffset > i THEN Panic(s)     \* s.data[s.parseOffset:i]
    ELSE state_start_line(s, Slice(s.data, s.parseOffset, i), i, capLimited)

state_start(s, capLimited) ==
    state_start_at([s EXCEPT !.message.start = s.parseOffset],
                   bytes_Index(SliceFrom(s.data, s.parseOffset), CRLF), capLimited)

\* an end of headers that tests Transfer-Encoding before the status code
state_headers_end_chunked_first(s, m, po) ==
    IF m.TransferEncoding = b_chunked
        THEN Step([s EXCEPT !.parseOffset = po, !.message.bodyOffset = po,
                            !.parseState = BODY_CHUNKED_START],
                  TRUE, TRUE, FALSE)
    ELSE IF ~m.IsRequest /\ ((100 <= m.StatusCode /\ m.StatusCode < 200)
                             \/ m.StatusCode = 204 \/ m.StatusCode = 304)
        THEN Step([s EXCEPT !.parseOffset = po, !.message.bodyOffset = po, !.message.end = po],
                  FALSE, TRUE, TRUE)
    ELSE IF m.ContentLength = 0 /\ (m.IsRequest \/ m.hasContentLength)
        THEN Step([s EXCEPT !.parseOffset = po, !.message.bodyOffset = po, !.message.end = po],
                  FALSE, TRUE, TRUE)
    ELSE Step([s EXCEPT !.parseOffset = po, !.message.bodyOffset = po, !.parseState = BODY],
              TRUE, TRUE, FALSE)

\* case HEADERS of messageParser, the empty line that ends the headers
state_headers_end(s, m, po) ==
    IF ~m.IsRequest /\ ((100 <= m.StatusCode /\ m.StatusCode < 200)
                        \/ m.StatusCode = 204 \/ m.StatusCode = 304)
        THEN Step([s EXCEPT !.parseOffset = po, !.message.bodyOffset = po, !.message.end = po],
                  FALSE, TRUE, TRUE)
    ELSE IF m.TransferEncoding = b_chunked
        THEN Step([s EXCEPT !.parseOffset = po, !.message.bodyOffset = po,
                            !.parseState = BODY_CHUNKED_START],
                  TRUE, TRUE, FALSE)
    ELSE IF m.ContentLength = 0 /\ (m.IsRequest \/ m.hasContentLength)
        THEN Step([s EXCEPT !.parseOffset = po, !.message.bodyOffset = po, !.message.end = po],
                  FALSE, TRUE, TRUE)
    ELSE Step([s EXCEPT !.parseOffset = po, !.message.bodyOffset = po, !.parseState = BODY],
              TRUE, TRUE, FALSE)

\* case HEADERS, a header line: h is what parseHeader returns
state_headers_line(s, h) ==
    IF ~h.ok THEN Step(s, FALSE, FALSE, FALSE)
    ELSE IF ~h.complete THEN Step([s EXCEPT !.message = h.m], FALSE, TRUE, FALSE)
    ELSE Step([s EXCEPT !.message = h.m, !.parseOffset = s.parseOffset + h.offset],
              TRUE, TRUE, FALSE)

state_headers(s) ==
    IF Len(s.data) - s.parseOffset >= 2 /\ Slice(s.data, s.parseOffset, s.parseOffset + 2) = CRLF
        THEN state_headers_end(s, s.message, s.parseOffset + 2)
    ELSE state_headers_line(s, parseHeader(s.message, SliceFrom(s.data, s.parseOffset)))

\* a case BODY that counts the body from its first byte at every segment
state_body_recounts(s) ==
    IF ~s.message.hasContentLength
        THEN Step([s EXCEPT !.bodyReceived = Len(s.data) - s.message.bodyOffset + @,
                            !.message.ContentLength = Len(s.data) - s.message.bodyOffset + @,
                            !.parseOffset = Len(s.data)],
                  FALSE, TRUE, FALSE)
    ELSE Step([s EXCEPT !.parseOffset = Len(s.data)], FALSE, TRUE, FALSE)

\* case BODY of messageParser
state_body(s) ==
    LET m    == s.message
        left == Len(s.data) - s.parseOffset
    IN  IF ~m.hasContentLength
           /\ (m.connection = b_close
               \/ (m.version_major = 1 /\ m.version_minor = 0 /\ m.connection # b_keep_alive))
            THEN Step([s EXCEPT !.bodyReceived = s.bodyReceived + left,
                                !.message.ContentLength = m.ContentLength + left,
                                !.parseOffset = Len(s.data)],
                      FALSE, TRUE, FALSE)
        ELSE IF left >= m.ContentLength - s.bodyReceived
            THEN LET po == s.parseOffset + (m.ContentLength - s.bodyReceived)
                 IN  Step([s EXCEPT !.parseOffset = po, !.message.end = po], FALSE, TRUE, TRUE)
        ELSE Step([s EXCEPT !.bodyReceived = s.bodyReceived + left, !.parseOffset = Len(s.data)],
                  FALSE, TRUE, FALSE)

state_body_chunked_wait_final_crlf(s) ==
    IF Len(s.data) - s.parseOffset < 2 THEN Step(s, FALSE, TRUE, FALSE)
    ELSE IF Slice(s.data, s.parseOffset, s.parseOffset + 2) # CRLF THEN Step(s, FALSE, FALSE, FALSE)
    ELSE Step([s EXCEPT !.parseOffset = s.parseOffset + 2, !.message.end = s.parseOffset + 2],
              FALSE, TRUE, TRUE)

\* state_body_chunked_start once the size line is read: sc is what Sscanf returns,
\* po the offset after the line
state_body_chunked_size(s, sc, po) ==
    IF sc.err THEN Step(s, FALSE, FALSE, FALSE)
    ELSE IF sc.n = 0
        THEN IF Len(s.data) - po < 2
                 THEN Step([s EXCEPT !.parseOffset = po, !.message.chunked_length = sc.n,
                                     !.parseState = BODY_CHUNKED_WAIT_FINAL_CRLF],
                           FALSE, TRUE, FALSE)
             ELSE IF Slice(s.data, po, po + 2) # CRLF
                 THEN Step([s EXCEPT !.parseOffset = po, !.message.chunked_length = sc.n],
                           FALSE, FALSE, FALSE)
             ELSE Step([s EXCEPT !.parseOffset = po + 2, !.message.chunked_length = sc.n,
                                 !.message.end = po + 2],
                       FALSE, TRUE, TRUE)
    ELSE Step([s EXCEPT !.parseOffset = po, !.message.chunked_length = sc.n,
                        !.bodyReceived = 0, !.parseState = BODY_CHUNKED],
              TRUE, TRUE, FALSE)

state_body_chunked_line(s, i) ==
    IF i = -1 THEN Step(s, FALSE, TRUE, FALSE)
    ELSE state_body_chunked_size(s, Sscanf_x(Slice(s.data, s.parseOffset, s.parseOffset + i)),
                                 s.parseOffset + i + 2)

state_body_chunked_start(s) ==
    state_body_chunked_line(s, bytes_Index(SliceFrom(s.data, s.parseOffset), CRLF))

\* a case BODY_CHUNKED that takes what there is of a chunk without waiting for the
\* CRLF after it
state_body_chunked_eager(s) ==
    LET m    == s.message
        left == Len(s.data) - s.parseOffset
        want == m.chunked_length - s.bodyReceived
    IN  IF left >= want + 2
            THEN IF want < 0 THEN Panic(s)
                 ELSE Step([s EXCEPT
                              !.message.chunked_body =
                                  m.chunked_body \o Slice(s.data, s.parseOffset, s.parseOffset + want),
                              !.parseOffset = s.parseOffset + want + 2,
                              !.message.ContentLength = m.ContentLength + m.chunked_length,
                              !.parseState = BODY_CHUNKED_START],
                           TRUE, TRUE, FALSE)
        ELSE Step([s EXCEPT !.message.chunked_body = m.chunked_body \o SliceFrom(s.data, s.parseOffset),
                            !.bodyReceived = s.bodyReceived + left,
                            !.parseOffset = Len(s.data)],
                  FALSE, TRUE, FALSE)

state_body_chunked(s) ==
    LET m    == s.message
        left == Len(s.data) - s.parseOffset
        want == m.chunked_length - s.bodyReceived
    IN  IF left >= want + 2
            THEN IF want < 0 THEN Panic(s)    \* s.data[parseOffset : parseOffset+want]
                 ELSE Step([s EXCEPT
                              !.message.chunked_body =
                                  m.chunked_body \o Slice(s.data, s.parseOffset, s.parseOffset + want),
                              !.parseOffset = s.parseOffset + want + 2,
                              !.message.ContentLength = m.ContentLength + m.chunked_length,
                              !.parseState = BODY_CHUNKED_START],
                           TRUE, TRUE, FALSE)
        ELSE IF left >= want THEN Step(s, FALSE, TRUE, FALSE)
        ELSE Step([s EXCEPT !.message.chunked_body = m.chunked_body \o SliceFrom(s.data, s.parseOffset),
                            !.bodyReceived = s.bodyReceived + left,
                            !.parseOffset = Len(s.data)],
                  FALSE, TRUE, FALSE)

\* one turn of the for loop of messageParser: the switch on parseState
parserSwitch(s, capLimited) ==
    CASE s.parseState = START -> state_start(s, capLimited)
      [] s.parseState = HEADERS -> state_headers(s)
      [] s.parseState = BODY -> state_body(s)
      [] s.parseState = BODY_CHUNKED_START -> state_body_chunked_start(s)
      [] s.parseState = BODY_CHUNKED -> state_body_chunked(s)
      [] s.parseState = BODY_CHUNKED_WAIT_FINAL_CRLF -> state_body_chunked_wait_final_crlf(s)
      [] OTHER -> Step(s, TRUE, TRUE, FALSE)

\* the for loop of messageParser; r is what the turn before left
RECURSIVE messageParser(_, _)
parserLoop(r, capLimited) == IF r.cont THEN messageParser(r.s, capLimited) ELSE r

messageParser(s, capLimited) ==
    IF ~(s.parseOffset < Len(s.data)) THEN Step(s, FALSE, TRUE, FALSE)
    ELSE parserLoop(parserSwitch(s, capLimited), capLimited)

\* a reset that empties the buffer
PrepareForNewMessage_empties(s) ==
    [s EXCEPT !.data = <<>>, !.arrived = <<>>,
              !.parseState = START, !.parseOffset = 0, !.bodyReceived = 0, !.message = Nil]

\* PrepareForNewMessage
PrepareForNewMessage(s) ==
    [s EXCEPT !.data = SliceFrom(s.data, s.message.end),
              !.arrived = SliceFrom(s.arrived, s.message.end),
              !.parseState = START, !.parseOffset = 0, !.bodyReceived = 0, !.message = Nil]

(***************************************************************************)
(* The Redactor.  msg is a slice of the stream's data that begins at       *)
(* message.start: buf is the data from there on (what msg can reach within *)
(* its capacity) and n is len(msg).  Writing msg[i] needs i < n; slicing   *)
(* msg[a:b] needs a <= b <= cap(msg).                                      *)
(***************************************************************************)
\* for i := from; i < to; i++ { msg[i] = '*' }
Stars(buf, from, to) == [i \in 1..Len(buf) |-> IF from < i /\ i <= to THEN "*" ELSE buf[i]]
StarsPanic(n, from, to) == from < to /\ (to > n \/ from < 0)

\* the Authorization pass of censorPasswords: the value from start_index to end_index
censorAuthorizationValue(m, buf, n, start_index, end_index) ==
    IF StarsPanic(n, start_index, end_index) THEN [m |-> m, buf |-> buf, panic |-> TRUE]
    ELSE [m     |-> [m EXCEPT !.Headers = MapPut(@, b_authorization, b_star)],
          buf   |-> Stars(buf, start_index, end_index),
          panic |-> FALSE]

\* found is bytes.Index(msg[m.headerOffset+val_start_x:m.bodyOffset], "\r\n")
censorAuthorizationEnd(m, buf, n, val_start_x, found) ==
    censorAuthorizationValue(m, buf, n, m.headerOffset + val_start_x + Len(auth_text),
        m.headerOffset + (IF found < 0 \/ found > m.bodyOffset - m.headerOffset
                              THEN m.bodyOffset - m.headerOffset
                          ELSE found))

\* val_start_x is bytes.Index(msg[m.headerOffset:m.bodyOffset], auth_text)
censorAuthorizationAt(m, buf, n, val_start_x) ==
    IF val_start_x = -1
        THEN [m |-> [m EXCEPT !.Headers = MapPut(@, b_authorization, b_star)],
              buf |-> buf, panic |-> FALSE]
    ELSE censorAuthorizationEnd(m, buf, n, val_start_x,
             bytes_Index(Slice(buf, m.headerOffset + val_start_x, m.bodyOffset), CRLF))

censorAuthorization(m, buf, n) ==
    IF ~(cfg.Strip_authorization /\ MapGet(m.Headers, b_authorization) # <<>>)
        THEN [m |-> m, buf |-> buf, panic |-> FALSE]
    ELSE IF m.headerOffset > m.bodyOffset \/ m.bodyOffset > Len(buf)
        THEN [m |-> m, buf |-> buf, panic |-> TRUE]    \* msg[m.headerOffset:m.bodyOffset]
    ELSE censorAuthorizationAt(m, buf, n,
             bytes_Index(Slice(buf, m.headerOffset, m.bodyOffset), auth_text))

\* the body of the loop over the keywords, one keyword: the value found
censorKeywordValue(m, buf, n, start_index, end_index) ==
    IF ~(end_index - start_index < 120) THEN [m |-> m, buf |-> buf, panic |-> FALSE]
    ELSE IF StarsPanic(n, start_index, end_index) THEN [m |-> m, buf |-> buf, panic |-> TRUE]
    ELSE [m |-> m, buf |-> Stars(buf, start_index, end_index), panic |-> FALSE]

\* found is bytes.IndexAny(msg[m.bodyOffset+index+len(keyword):], "& \r\n")
censorKeywordEnd(m, buf, n, index, start_index, found) ==
    censorKeywordValue(m, buf, n, start_index,
        IF found > 0
            THEN IF found + m.bodyOffset + index > m.end THEN m.end
                 ELSE found + m.bodyOffset + index
        ELSE m.end)

\* index is bytes.Index(msg[m.bodyOffset:], keyword)
censorKeywordAt(m, buf, n, keyword, index) ==
    IF ~(index > 0) THEN [m |-> m, buf |-> buf, panic |-> FALSE]
    ELSE censorKeywordEnd(m, buf, n, index, m.bodyOffset + index + Len(keyword),
             bytes_IndexAny(Slice(buf, m.bodyOffset + index + Len(keyword), n),
                            {"&", " ", "\r", "\n"}))

censorKeyword(m, buf, n, keyword) ==
    censorKeywordAt(m, buf, n, keyword, bytes_Index(Slice(buf, m.bodyOffset, n), keyword))

\* the loop over the keywords; r is what the keyword before left
RECURSIVE censorKeywords(_, _, _, _)
censorKeywordsNext(r, n, keywords) ==
    IF r.panic THEN r ELSE censorKeywords(r.m, r.buf, n, keywords)

censorKeywords(m, buf, n, keywords) ==
    IF keywords = <<>> THEN [m |-> m, buf |-> buf, panic |-> FALSE]
    ELSE censorKeywordsNext(censorKeyword(m, buf, n, Head(keywords)), n, Tail(keywords))

\* the pass of censorPasswords over the body; a is what the Authorization pass left
censorBody(a, n) ==
    IF a.panic THEN a
    ELSE IF a.m.ContentLength > 0
            /\ strings_Contains(MapGet(a.m.Headers, b_content_type), b_urlencoded)
        THEN IF a.m.bodyOffset > n THEN [a EXCEPT !.panic = TRUE]    \* msg[m.bodyOffset:]
             ELSE censorKeywords(a.m, a.buf, n, cfg.Hide_keywords)
    ELSE a

censorPasswords(m, buf, n) ==
    IF ~m.IsRequest THEN [m |-> m, buf |-> buf, panic |-> FALSE]
    ELSE censorBody(censorAuthorization(m, buf, n), n)

shouldIncludeInBody(contenttype) ==
    \E j \in 1..Len(cfg.Include_body_for) : strings_Contains(contenttype, cfg.Include_body_for[j])

\* cutMessageBody: the bytes kept as request_raw / response_raw, and buf as the
\* append to m.Raw[:m.bodyOffset] leaves it (append writes in place within the capacity)
cutMessageBody(m, buf, n) ==
    IF m.bodyOffset > Len(buf) THEN [raw |-> <<>>, buf |-> buf, panic |-> TRUE]
    ELSE LET head == Slice(buf, 0, m.bodyOffset) IN
         IF b_content_type \in DOMAIN m.Headers
            /\ (Len(m.Headers[b_content_type]) = 0 \/ shouldIncludeInBody(m.Headers[b_content_type]))
             THEN IF Len(m.chunked_body) > 0
                      THEN [raw |-> head \o m.chunked_body,
                            buf |-> IF m.bodyOffset + Len(m.chunked_body) <= Len(buf)
                                        THEN head \o m.chunked_body
                                             \o SliceFrom(buf, m.bodyOffset + Len(m.chunked_body))
                                    ELSE buf,
                            panic |-> FALSE]
                  ELSE IF m.bodyOffset > n THEN [raw |-> <<>>, buf |-> buf, panic |-> TRUE]
                  ELSE [raw |-> head \o Slice(buf, m.bodyOffset, n), buf |-> buf, panic |-> FALSE]
         ELSE [raw |-> head, buf |-> buf, panic |-> FALSE]

\* splitCookiesHeader: panic when a cookie has no "="
splitCookiesPanics(headerVal) ==
    LET cstring == strings_Split(headerVal, ";")
    IN  \E j \in 1..Len(cstring) : Len(strings_Split(cstring[j], "=")) < 2

splitCookiesHeader(headerVal) ==
    LET cstring == strings_Split(headerVal, ";")
        key(j)  == strings_ToLower(bytes_Trim(strings_Split(cstring[j], "=")[1], {" "}))
        names   == {key(j) : j \in 1..Len(cstring)}
    IN  [k \in names |->
            strings_Split(cstring[MaxOf({j \in 1..Len(cstring) : key(j) = k})], "=")[2]]

\* the headers as receivedHttpRequest / receivedHttpResponse record them
splitHeaders(headers, cookieName) ==
    [k \in DOMAIN headers |->
        IF k = cookieName THEN splitCookiesHeader(headers[k]) ELSE headers[k]]

(***************************************************************************)
(* The transaction table, its timers and the publication.  The handlers    *)
(* act on w, the record of what they can change:                           *)
(*   map      transactionsMap: Nil, or the flow's *HttpTransaction         *)
(*   timers   the timers, each armed, running (its function was started),  *)
(*            stopped or done                                              *)
(*   results  the channel's content                                        *)
(*   obs      the history                                                  *)
(***************************************************************************)
\* TransactionTimeout = 10 * 1e9 nanoseconds, in microseconds
TransactionTimeout == 10000000

\* tcp.TCP_MAX_DATA_IN_STREAM, scaled to the streams of the model
TCP_MAX_DATA_IN_STREAM == 100

\* the capacity of the results channel, which the caller of Init makes
ChanCap == 1

World == [map |-> transactionsMap, timers |-> timers, results |-> results, obs |-> obs]

\* the world when Init returns
NewWorld ==
    [map |-> Nil, timers |-> <<>>, results |-> <<>>,
     obs |-> [log |-> <<>>, calls |-> 0, last |-> [op |-> "Init", dir |-> 0, how |-> "nothing"]]]

Logged(w, e) == [w EXCEPT !.obs.log = Append(@, e)]

\* &HttpTransaction{Type: "http", tuple: msg.TcpTuple}; timer is the number of the
\* transaction's timer in timers, 0 for none; no and first are history: the number
\* of the request and the arrival time of its first byte
NewTransaction ==
    [ts |-> 0, Method |-> <<>>, RequestUri |-> <<>>, Http |-> Nil, Request_raw |-> <<>>,
     Response_raw |-> <<>>, ResponseTime |-> 0, Real_ip |-> <<>>, timer |-> 0,
     no |-> 0, first |-> 0]

MapLen(h) == IF h = Nil THEN 0 ELSE Cardinality(DOMAIN h)

\* timer.Stop(): an armed timer never fires; one that fired already is not stopped
StopTimer(tm, id) ==
    IF id # 0 /\ tm[id].state = "armed" THEN [tm EXCEPT ![id].state = "stopped"] ELSE tm

\* time.AfterFunc(TransactionTimeout, func() { http.expireTransaction(trans) })
AfterFunc(tm, no) ==
    Append(tm, [state |-> "armed", deadline |-> now + TransactionTimeout, no |-> no])

Requests(o) == Cardinality({i \in 1..Len(o.log) : o.log[i].ev = "request"})

\* what a handler leaves: the world, the bytes of msg, whether it panicked and
\* whether it waits in the send (with the transaction and the event it holds)
Handled(w, buf, panic) ==
    [w |-> w, buf |-> buf, panic |-> panic, blocked |-> FALSE, trans |-> Nil, event |-> Nil]

\* receivedHttpRequest: the transaction of the flow, or a new one, with its time
requestTrans(old, m, no, first) ==
    [(IF old # Nil THEN old ELSE NewTransaction) EXCEPT !.ts = m.Ts, !.no = no, !.first = first]

\* receivedHttpRequest: trans.Http
requestHeaders(m) ==
    IF ~cfg.Send_headers THEN EmptyMap
    ELSE MapPut(EmptyMap, "request_headers",
                IF cfg.Split_cookie THEN splitHeaders(m.Headers, b_cookie) ELSE m.Headers)

\* receivedHttpRequest from `save Raw message` on; t is trans, which the map holds,
\* and cut what cutMessageBody returns
requestStored(w, t, m, cut) ==
    IF cut.panic THEN Handled([w EXCEPT !.map = t], cut.buf, TRUE)
    ELSE IF cfg.Send_headers /\ cfg.Split_cookie /\ b_cookie \in DOMAIN m.Headers
            /\ splitCookiesPanics(m.Headers[b_cookie])
        THEN Handled([w EXCEPT !.map = [t EXCEPT !.Request_raw = cut.raw, !.Method = m.Method,
                                                 !.RequestUri = m.RequestUri, !.Http = EmptyMap]],
                     cut.buf, TRUE)
    ELSE Handled([w EXCEPT !.map = [t EXCEPT !.Request_raw = cut.raw, !.Method = m.Method,
                                             !.RequestUri = m.RequestUri,
                                             !.Http = requestHeaders(m),
                                             !.Real_ip = m.Real_ip,
                                             !.timer = Len(w.timers) + 1],
                           !.timers = AfterFunc(StopTimer(@, t.timer), t.no)],
                 cut.buf, FALSE)

\* history: the request, its number, and the number of the request whose entry
\* the table held when it came (0: none)
RequestNoted(w) ==
    [ev |-> "request", no |-> Requests(w.obs) + 1,
     replaced |-> IF w.map = Nil THEN 0 ELSE w.map.no]

\* receivedHttpRequest; first: when the first byte of the message arrived
receivedHttpRequest(w, m, buf, n, first) ==
    requestStored(
        IF w.map # Nil /\ MapLen(w.map.Http) # 0
            THEN Logged(Logged(w, RequestNoted(w)), [ev |-> "warn", what |-> "two requests"])
        ELSE Logged(w, RequestNoted(w)),
        requestTrans(w.map, m, Requests(w.obs) + 1, first),
        m,
        IF cfg.Send_request THEN cutMessageBody(m, buf, n)
        ELSE [raw |-> IF w.map # Nil THEN w.map.Request_raw ELSE <<>>, buf |-> buf,
              panic |-> FALSE])

\* the event PublishTransaction sends; first: history, the arrival times of the
\* first bytes of the request and of the response
Event(t, respFirst) ==
    LET keys == {"status", "responsetime", "http", "method", "path", "timestamp", "no", "first"}
                \cup (IF cfg.Send_request THEN {"request_raw"} ELSE {})
                \cup (IF cfg.Send_response THEN {"response_raw"} ELSE {})
                \cup (IF Len(t.Real_ip) > 0 THEN {"real_ip"} ELSE {})
    IN  [k \in keys |->
            CASE k = "status" -> IF t.Http["code"] < 400 THEN <<"O", "K">> ELSE <<"E", "r", "r", "o", "r">>
              [] k = "responsetime" -> t.ResponseTime
              [] k = "request_raw" -> t.Request_raw
              [] k = "response_raw" -> t.Response_raw
              [] k = "http" -> t.Http
              [] k = "real_ip" -> t.Real_ip
              [] k = "method" -> t.Method
              [] k = "path" -> t.RequestUri
              [] k = "timestamp" -> t.ts
              [] k = "no" -> t.no
              [] OTHER -> <<t.first, respFirst>>]

\* a receivedHttpResponse that sends the event and leaves the entry in the table
completeResponse_keeps(w, t, event) ==
    IF ~cfg.Sink THEN w
    ELSE Logged([w EXCEPT !.results = Append(@, event)], [ev |-> "emit", event |-> event])

\* receivedHttpResponse from `http.results <- event` on: the send, and what follows it
completeResponse(w, t, event) ==
    [(IF ~cfg.Sink THEN w
      ELSE Logged([w EXCEPT !.results = Append(@, event)], [ev |-> "emit", event |-> event]))
     EXCEPT !.map = Nil, !.timers = StopTimer(@, t.timer)]

\* PublishTransaction and the rest of receivedHttpResponse; blocked: the channel is
\* full and the worker waits in the send
responsePublished(w, t, buf, event) ==
    IF cfg.Sink /\ Len(w.results) >= ChanCap
        THEN [w |-> w, buf |-> buf, panic |-> FALSE, blocked |-> TRUE,
              trans |-> t, event |-> event]
    ELSE Handled(completeResponse(w, t, event), buf, FALSE)

\* receivedHttpResponse: the MapStr response
responseFields(m) ==
    [k \in {"phrase", "code", "content_length"}
           \cup (IF cfg.Send_headers THEN {"response_headers"} ELSE {}) |->
        CASE k = "phrase" -> m.StatusPhrase
          [] k = "code" -> m.StatusCode
          [] k = "content_length" -> m.ContentLength
          [] OTHER -> IF cfg.Split_cookie THEN splitHeaders(m.Headers, b_set_cookie)
                      ELSE m.Headers]

\* trans.Http.Update(response) and trans.ResponseTime
responseTrans(t, m, response) ==
    [t EXCEPT !.Http = [k \in (DOMAIN t.Http) \cup (DOMAIN response) |->
                           IF k \in DOMAIN response THEN response[k] ELSE t.Http[k]],
              !.ResponseTime = GoDiv(m.Ts - t.ts, 1000)]

\* receivedHttpResponse from `save Raw message` on; t is trans, which the map holds
responseStored(w, t, cut, first) ==
    IF cut.panic THEN Handled([w EXCEPT !.map = t], cut.buf, TRUE)
    ELSE responsePublished([w EXCEPT !.map = [t EXCEPT !.Response_raw = cut.raw]],
                           [t EXCEPT !.Response_raw = cut.raw], cut.buf,
                           Event([t EXCEPT !.Response_raw = cut.raw], first))

\* receivedHttpResponse; w0 is the world with the call noted
responseFor(w0, t, m, buf, n, first) ==
    IF t = Nil
        THEN Handled(Logged(w0, [ev |-> "warn", what |-> "unknown transaction"]), buf, FALSE)
    ELSE IF t.Http = Nil
        THEN Handled(Logged(w0, [ev |-> "warn", what |-> "no known request"]), buf, FALSE)
    ELSE IF cfg.Send_headers /\ cfg.Split_cookie /\ b_set_cookie \in DOMAIN m.Headers
            /\ splitCookiesPanics(m.Headers[b_set_cookie])
        THEN Handled(w0, buf, TRUE)
    ELSE responseStored(w0, responseTrans(t, m, responseFields(m)),
                        IF cfg.Send_response THEN cutMessageBody(m, buf, n)
                        ELSE [raw |-> t.Response_raw, buf |-> buf, panic |-> FALSE],
                        first)

receivedHttpResponse(w, m, buf, n, first) ==
    responseFor(Logged(w, [ev |-> "response",
                           found |-> IF w.map = Nil THEN 0 ELSE w.map.no]),
                w.map, m, buf, n, first)

\* handleHttp
handleHttp(w, m, buf, n, first) ==
    IF m.IsRequest THEN receivedHttpRequest(w, m, buf, n, first)
    ELSE receivedHttpResponse(w, m, buf, n, first)

\* history: when the first byte of the stream's message arrived
FirstByte(s) ==
    IF s.message.start < Len(s.arrived) THEN s.arrived[s.message.start + 1] ELSE s.message.Ts

\* what censorPasswords and handleHttp leave of the stream; c is what
\* censorPasswords returns, h what handleHttp returns
Dispatched(s, c, h) ==
    [w |-> h.w,
     s |-> [s EXCEPT !.message = c.m, !.data = Slice(s.data, 0, s.message.start) \o h.buf],
     panic |-> h.panic, blocked |-> h.blocked, trans |-> h.trans, event |-> h.event]

Censored(w, s, n, c) ==
    IF c.panic
        THEN [w |-> w, s |-> s, panic |-> TRUE, blocked |-> FALSE, trans |-> Nil, event |-> Nil]
    ELSE Dispatched(s, c, handleHttp(w, c.m, c.buf, n, FirstByte(s)))

\* censorPasswords and handleHttp on the message of stream s, whose raw bytes are
\* n bytes of s.data from message.start
Dispatch(w, s, n) ==
    Censored(w, s, n, censorPasswords(s.message, SliceFrom(s.data, s.message.start), n))

(***************************************************************************)
(* The entry points the reassembler calls, on the private data p it holds  *)
(* for the flow and the world w.  Each yields what the call leaves: the    *)
(* private data it returns, the world, where the worker is and, in         *)
(* obs.last, how the call ended.                                           *)
(***************************************************************************)
Idle == [pc |-> "idle"]
NoPrivate == [d \in 0..1 |-> Nil]

Ended(p, w, op, d, how) ==
    [priv |-> p, w |-> [w EXCEPT !.obs.last = [op |-> op, dir |-> d, how |-> how]],
     worker |-> Idle]

\* a panic in Parse: logp.Recover recovers it and Parse returns nil
Recovered(w, d, where) ==
    Ended(NoPrivate, Logged(w, [ev |-> "panic", op |-> "Parse", where |-> where]),
          "Parse", d, "panic")

\* a panic in ReceivedFin, which nothing recovers: the process ends
Crashed(p, w, d) ==
    [priv |-> p, w |-> [Logged(w, [ev |-> "panic", op |-> "ReceivedFin", where |-> "handleHttp"])
                           EXCEPT !.obs.last = [op |-> "ReceivedFin", dir |-> d, how |-> "panic"]],
     worker |-> [pc |-> "crashed"]]

\* the worker waits in `http.results <- event`
Waiting(p, h, op, d) ==
    [priv |-> p, w |-> [h.w EXCEPT !.obs.last = [op |-> op, dir |-> d, how |-> "blocked"]],
     worker |-> [pc |-> "send", op |-> op, dir |-> d, trans |-> h.trans, event |-> h.event]]

\* Parse and ReceivedFin once handleHttp returned h
AfterHandle(p, d, h, op) ==
    IF h.panic THEN IF op = "Parse" THEN Recovered(h.w, d, "handleHttp") ELSE Crashed(p, h.w, d)
    ELSE IF h.blocked THEN Waiting([p EXCEPT ![d] = h.s], h, op, d)
    ELSE Ended([p EXCEPT ![d] = PrepareForNewMessage(h.s)], h.w, op, d, "complete")

\* Parse once messageParser returned r
Parsed(p, w, d, r) ==
    IF r.panic THEN Recovered(w, d, "messageParser")
    ELSE IF ~r.ok THEN Ended([p EXCEPT ![d] = Nil], w, "Parse", d, "invalid")
    ELSE IF ~r.complete THEN Ended([p EXCEPT ![d] = r.s], w, "Parse", d, "advance")
    ELSE IF r.s.message.start > r.s.message.end \/ r.s.message.end < 0
            \/ r.s.message.end > Len(r.s.data)
        THEN Recovered(w, d, "Parse")       \* stream.data[stream.message.start:stream.message.end]
    ELSE AfterHandle(p, d, Dispatch(w, r.s, r.s.message.end - r.s.message.start), "Parse")

\* Parse, of a packet of the given payload and timestamp ts on direction d
ParseCall(p, w, d, payload, ts, capLimited) ==
    IF p[d] # Nil /\ Len(p[d].data) + Len(payload) > TCP_MAX_DATA_IN_STREAM
        THEN Ended([p EXCEPT ![d] = Nil], w, "Parse", d, "too large")
    ELSE Parsed(p, w, d,
                messageParser(IF p[d] = Nil THEN HttpStream(payload, ts)
                              ELSE [p[d] EXCEPT
                                       !.data = @ \o payload,
                                       !.arrived = @ \o [i \in 1..Len(payload) |-> ts],
                                       !.message = IF @ = Nil THEN HttpMessage(ts) ELSE @],
                              capLimited))

\* ReceivedFin on direction d
ReceivedFinCall(p, w, d) ==
    IF p[d] = Nil THEN Ended(p, w, "ReceivedFin", d, "nothing")
    ELSE IF p[d].message # Nil /\ Len(p[d].data) - p[d].message.start > 0
        THEN AfterHandle(p, d, Dispatch(w, p[d], Len(p[d].data) - p[d].message.start),
                         "ReceivedFin")
    ELSE Ended(p, w, "ReceivedFin", d, "nothing")

\* GapInStream on direction d
GapInStreamCall(p, w, d) == Ended(p, w, "GapInStream", d, "nothing")

\* the call counts as n calls of the behaviour
Leaves(out, n) ==
    /\ priv' = out.priv
    /\ transactionsMap' = out.w.map
    /\ timers' = out.w.timers
    /\ results' = out.w.results
    /\ obs' = [out.w.obs EXCEPT !.calls = @ + n]
    /\ worker' = out.worker

(***************************************************************************)
(* The actions                                                             *)
(***************************************************************************)
\* the reassembler calls Parse with a packet that arrived now
Parse(d, payload, n) ==
    /\ worker.pc = "idle"
    /\ \E capLimited \in BOOLEAN : Leaves(ParseCall(priv, World, d, payload, now, capLimited), n)

ReceivedFin(d, n) ==
    /\ worker.pc = "idle"
    /\ Leaves(ReceivedFinCall(priv, World, d), n)

GapInStream(d, n) ==
    /\ worker.pc = "idle"
    /\ Leaves(GapInStreamCall(priv, World, d), n)

\* the channel takes the event: receivedHttpResponse goes on after the send, and
\* Parse or ReceivedFin after it
SendDone ==
    /\ worker.pc = "send"
    /\ Len(results) < ChanCap
    /\ Leaves(Ended([priv EXCEPT ![worker.dir] = PrepareForNewMessage(priv[worker.dir])],
                    completeResponse(World, worker.trans, worker.event),
                    worker.op, worker.dir, "complete"), 0)
    /\ UNCHANGED <<cfg, now, wire>>

\* the sink receives from the channel
SinkReceive ==
    /\ worker.pc # "crashed"
    /\ results # <<>>
    /\ results' = Tail(results)
    /\ UNCHANGED <<cfg, priv, transactionsMap, timers, worker, now, wire, obs>>

\* a timer's time has come: the runtime starts its function in a goroutine
TimerFire(id) ==
    /\ worker.pc # "crashed"
    /\ timers[id].state = "armed"
    /\ now >= timers[id].deadline
    /\ timers' = [timers EXCEPT ![id].state = "running"]
    /\ UNCHANGED <<cfg, priv, transactionsMap, results, worker, now, wire, obs>>

\* an expireTransaction that returns without the delete
expireTransaction_keeps(id) ==
    /\ worker.pc # "crashed"
    /\ timers[id].state = "running"
    /\ timers' = [timers EXCEPT ![id].state = "done"]
    /\ obs' = [obs EXCEPT !.log = Append(@, [ev |-> "expire", no |-> timers[id].no,
                                              removed |-> 0])]
    /\ UNCHANGED <<cfg, priv, transactionsMap, results, worker, now, wire>>

\* expireTransaction, run by the timer's goroutine
expireTransaction(id) ==
    /\ worker.pc # "crashed"
    /\ timers[id].state = "running"
    /\ transactionsMap' = Nil
    /\ timers' = [timers EXCEPT ![id].state = "done"]
    /\ obs' = [obs EXCEPT !.log = Append(@, [ev |-> "expire", no |-> timers[id].no,
                                              removed |-> IF transactionsMap = Nil THEN 0
                                                          ELSE transactionsMap.no])]
    /\ UNCHANGED <<cfg, priv, results, worker, now, wire>>

\* time passes, up to the time of the timers that are armed
Tick ==
    /\ worker.pc # "crashed"
    /\ \E id \in 1..Len(timers) : timers[id].state = "armed" /\ timers[id].deadline > now
    /\ now' = now + TransactionTimeout
    /\ UNCHANGED <<cfg, priv, transactionsMap, timers, results, worker, wire, obs>>

(***************************************************************************)
(* The traffic of the model                                                *)
(***************************************************************************)
SP == <<" ">>
GET == <<"G", "E", "T">>
HTTP11 == <<"H", "T", "T", "P", "/", "1", ".", "1">>
HTTP10 == <<"H", "T", "T", "P", "/", "1", ".", "0">>

\* GET /a HTTP/1.1 and GET /b HTTP/1.1, without headers
ReqA == GET \o SP \o <<"/", "a">> \o SP \o HTTP11 \o CRLF \o CRLF
ReqB == GET \o SP \o <<"/", "b">> \o SP \o HTTP11 \o CRLF \o CRLF
\* HTTP/1.1 204 No Content, without headers
Resp204 == HTTP11 \o SP \o <<"2", "0", "4">> \o SP \o <<"N", "o">> \o SP
           \o <<"C", "o", "n", "t", "e", "n", "t">> \o CRLF \o CRLF
\* HTTP/1.0 200 OK with a body that the end of the connection ends
RespClose == HTTP10 \o SP \o <<"2", "0", "0">> \o SP \o <<"O", "K">> \o CRLF \o CRLF \o <<"h", "i">>

\* InitDefaults, and the zero values of the configuration; Sink: Init was given a
\* results channel
DefaultConfig ==
    [Send_request |-> TRUE, Send_response |-> TRUE, Send_headers |-> FALSE,
     Send_all_headers |-> FALSE, Headers_whitelist |-> {}, Split_cookie |-> FALSE,
     Real_ip_header |-> <<>>, Hide_keywords |-> <<>>, Strip_authorization |-> FALSE,
     Include_body_for |-> <<>>, Sink |-> TRUE]

NoWire == [bytes |-> [d \in 0..1 |-> <<>>], sent |-> [d \in 0..1 |-> 0],
           segments |-> [d \in 0..1 |-> 0]]

\* Init of Http, with the configuration c
Started(c) ==
    /\ cfg = c
    /\ priv = NoPrivate
    /\ transactionsMap = NewWorld.map
    /\ timers = NewWorld.timers
    /\ results = NewWorld.results
    /\ obs = NewWorld.obs
    /\ worker = Idle
    /\ now = 0

(***************************************************************************)
(* Spec: a flow whose client sends requests and whose server answers, the  *)
(* timers, the channel and its sink.                                       *)
(***************************************************************************)
\* the number of calls of the entry points in a behaviour
MaxCalls == 4

Traffic == [d \in 0..1 |-> IF d = 0 THEN {ReqA} ELSE {Resp204, RespClose}]

Init ==
    /\ Started(DefaultConfig)
    /\ wire = NoWire

TrafficParse ==
    /\ obs.calls < MaxCalls
    /\ \E d \in 0..1 : \E payload \in Traffic[d] : Parse(d, payload, 1)
    /\ UNCHANGED <<cfg, now, wire>>

TrafficFin ==
    /\ obs.calls < MaxCalls
    /\ \E d \in 0..1 : ReceivedFin(d, 1)
    /\ UNCHANGED <<cfg, now, wire>>

TimerFires == \E id \in 1..Len(timers) : TimerFire(id)

TimerRuns == \E id \in 1..Len(timers) : expireTransaction(id)

Next ==
    \/ TrafficParse
    \/ TrafficFin
    \/ SendDone
    \/ SinkReceive
    \/ TimerFires
    \/ TimerRuns
    \/ Tick

Spec == Init /\ [][Next]_vars

\* the runtime runs the timers: time passes, a timer whose time has come fires, and
\* its goroutine is scheduled
FairSpec == Spec /\ WF_vars(Tick) /\ WF_vars(TimerFires) /\ WF_vars(TimerRuns)

(***************************************************************************)
(* Properties of Spec and FairSpec, stated on the history obs.log: the     *)
(* requests and responses the handlers were given, the events sent, the    *)
(* warnings and the runs of expireTransaction, in their order.             *)
(***************************************************************************)
Emits == {j \in 1..Len(obs.log) : obs.log[j].ev = "emit"}
Responses == {j \in 1..Len(obs.log) : obs.log[j].ev = "response"}
\* the worker is in the send of the response to request number no
Sending(no) == worker.pc = "send" /\ worker.trans.no = no

TableEvents == {"request", "emit", "expire"}
\* the response at j came after an expireTransaction that removed the entry
AfterExpiry(j) ==
    \E i \in 1..(j - 1) :
        /\ obs.log[i].ev = "expire" /\ obs.log[i].removed # 0
        /\ \A k \in (i + 1)..(j - 1) : obs.log[k].ev \notin TableEvents
\* the table holds the entry of request number no
Pending(no) == transactionsMap # Nil /\ transactionsMap.no = no
\* every response that came after such an expireTransaction found no entry, was
\* answered with the warning and sent nothing
C6_LateResponse ==
    \A j \in Responses : AfterExpiry(j) =>
        /\ obs.log[j].found = 0
        /\ obs.log[j + 1] = [ev |-> "warn", what |-> "unknown transaction"]
        /\ (j + 2 <= Len(obs.log) => obs.log[j + 2].ev # "emit")
        /\ (j + 1 = Len(obs.log) => transactionsMap = Nil)
\* C6: the entry of a request to which no response comes is removed from the table
\* in the end, its timer running expireTransaction; and a response that comes after
\* expireTransaction removed the entry finds none, is answered with the warning,
\* sends no event and leaves the table empty.
C6_TimeoutRemoves ==
    /\ \A no \in 1..(MaxCalls + 1) : Pending(no) ~> ~Pending(no)
    /\ []C6_LateResponse

\* expireTransaction removed the entry of a request, and a response came after it
C6_Witness ==
    \E j \in Responses : AfterExpiry(j) /\ j + 1 = Len(obs.log)

\* C7: a run of expireTransaction for the timer of request number no removes the
\* entry of that request or nothing, never the entry of a later request.
C7_StaleTimerKeepsEntry ==
    \A i \in 1..Len(obs.log) :
        obs.log[i].ev = "expire" => obs.log[i].removed \in {0, obs.log[i].no}

\* C8: the timer's goroutine never runs expireTransaction while the worker is inside
\* receivedHttpResponse, between its lookup of the entry and its delete.
C8_Serialized ==
    \A id \in 1..Len(timers) : ~(timers[id].state = "running" /\ worker.pc = "send")

(***************************************************************************)
(* SpecSeg: the bytes of the two directions of a flow are on the wire, and *)
(* the reassembler delivers them in order, the client's first, in segments *)
(* of any sizes, one every SegmentGap microseconds.                        *)
(***************************************************************************)
\* the segments a direction's bytes arrive in, at most
MaxSegments == 2
\* the time between two segments, in microseconds
SegmentGap == 1500

\* HTTP/1.1 204 N, without headers
RespN == HTTP11 \o SP \o <<"2", "0", "4">> \o SP \o <<"N">> \o CRLF \o CRLF

\* one request and its response; two pipelined requests and their responses
Wires ==
    {[NoWire EXCEPT !.bytes = [d \in 0..1 |-> IF d = 0 THEN ReqA ELSE RespN]],
     [NoWire EXCEPT !.bytes = [d \in 0..1 |-> IF d = 0 THEN ReqA \o ReqB ELSE RespN \o RespN]]}

SegInit ==
    /\ Started(DefaultConfig)
    /\ wire \in Wires

\* the direction whose bytes come next, and how many of them are left
SegDir == IF wire.sent[0] < Len(wire.bytes[0]) THEN 0 ELSE 1
SegLeft == Len(wire.bytes[SegDir]) - wire.sent[SegDir]

\* the next segment, of k bytes, arrives and the reassembler calls Parse with it; a
\* direction's bytes arrive in at most max segments
SegParseUpTo(max) ==
    /\ SegLeft > 0
    /\ \E k \in 1..SegLeft :
          /\ wire.segments[SegDir] + 1 < max \/ k = SegLeft
          /\ Parse(SegDir, SubSeq(wire.bytes[SegDir], wire.sent[SegDir] + 1,
                                  wire.sent[SegDir] + k), 1)
          /\ wire' = [wire EXCEPT !.sent[SegDir] = @ + k, !.segments[SegDir] = @ + 1]
    /\ now' = now + SegmentGap
    /\ UNCHANGED cfg

SegParse == SegParseUpTo(MaxSegments)

\* the bytes of one flow, the client's first, leave at most one transaction, so the
\* send on the channel does not block here
SegNext ==
    \/ SegParse
    \/ SinkReceive

SpecSeg == SegInit /\ [][SegNext]_vars

\* all the bytes were delivered and Parse returned
Delivered == SegLeft = 0 /\ SegDir = 1 /\ worker.pc = "idle"

\* the same bytes, fed to Parse as one segment per direction
OneSegment0 == ParseCall(NoPrivate, NewWorld, 0, wire.bytes[0], 0, TRUE)
OneSegment ==
    ParseCall(OneSegment0.priv, OneSegment0.w, 1, wire.bytes[1], SegmentGap, TRUE)

\* what a transaction shows of itself, apart from its times
Shown(event) ==
    [method |-> event["method"], path |-> event["path"], code |-> event["http"]["code"],
     content_length |-> event["http"]["content_length"],
     request_raw |-> event["request_raw"], response_raw |-> event["response_raw"]]
EmitsOf(log) == SelectSeq(log, LAMBDA e : e.ev = "emit")
\* the transactions sent, in their order, and the pending table
Observable(w) ==
    [emitted |-> [j \in 1..Len(EmitsOf(w.obs.log)) |-> Shown(EmitsOf(w.obs.log)[j].event)],
     pending |-> IF w.map = Nil THEN <<>>
                 ELSE <<[method |-> w.map.Method, path |-> w.map.RequestUri,
                         request_raw |-> w.map.Request_raw]>>]

\* C1: once all the bytes were delivered, in segments of whatever sizes, the
\* transactions sent and the pending table are those that the same bytes leave when
\* fed as one segment per direction.
C1_SegmentationInvariance ==
    Delivered => Observable(World) = Observable(OneSegment.w)

\* C10: the responsetime of every transaction sent is the time from the segment
\* that carried the first byte of the request to the segment that carried the first
\* byte of the response, in whole milliseconds.
C10_ResponseTime ==
    \A j \in Emits :
        obs.log[j].event["responsetime"]
            = GoDiv(obs.log[j].event["first"][2] - obs.log[j].event["first"][1], 1000)

(***************************************************************************)
(* SpecErr: the reassembler calls Parse, ReceivedFin and GapInStream in    *)
(* any order, with payloads that are malformed in the ways the parser and  *)
(* the handlers meet.  Init was given no results channel.                  *)
(***************************************************************************)
\* a request whose headers the blank line has not ended yet
AuthUnfinished ==
    <<"G", "E", "T", " ", "/", "a", " ", "H", "T", "T", "P", "/", "1", ".", "1", "\r", "\n",
      "A", "u", "t", "h", "o", "r", "i", "z", "a", "t", "i", "o", "n", ":", " ", "x", "\r",
      "\n">>
\* a request line whose third token has less than 5 bytes
ShortToken ==
    <<"G", "E", "T", " ", "/", " ", "H", "T", "\r", "\n">>
\* a request with a cookie without "="
CookieBad ==
    <<"G", "E", "T", " ", "/", "a", " ", "H", "T", "T", "P", "/", "1", ".", "1", "\r", "\n",
      "C", "o", "o", "k", "i", "e", ":", " ", "a", "\r", "\n", "\r", "\n">>
\* a request that does not end: 36 bytes
Unfinished ==
    <<"G", "E", "T", " ", "/", "a", " ", "H", "T", "T", "P", "/", "1", ".", "1", "\r", "\n",
      "X", "-", "P", "a", "d", ":", " ", "a", "a", "a", "a", "a", "a", "a", "a", "a", "a", "a",
      "a">>
\* a first line of less than 8 bytes
ShortLine ==
    <<"B", "L", "A", "H", "\r", "\n">>
\* a first line of exactly 8 bytes that starts with HTTP/
BadStatus ==
    <<"H", "T", "T", "P", "/", "1", ".", "1", "\r", "\n">>
\* a status line without the space after the code
NoPhrase ==
    <<"H", "T", "T", "P", "/", "1", ".", "1", " ", "2", "0", "0", "\r", "\n">>
\* a negative Content-Length
NegLength ==
    <<"H", "T", "T", "P", "/", "1", ".", "1", " ", "2", "0", "0", " ", "O", "K", "\r", "\n",
      "C", "o", "n", "t", "e", "n", "t", "-", "L", "e", "n", "g", "t", "h", ":", " ", "-", "9",
      "9", "\r", "\n", "\r", "\n", "a", "b">>
\* a negative chunk size
NegChunk ==
    <<"H", "T", "T", "P", "/", "1", ".", "1", " ", "2", "0", "0", " ", "O", "K", "\r", "\n",
      "T", "r", "a", "n", "s", "f", "e", "r", "-", "E", "n", "c", "o", "d", "i", "n", "g", ":",
      " ", "c", "h", "u", "n", "k", "e", "d", "\r", "\n", "\r", "\n", "-", "5", "\r", "\n",
      "a", "b", "c">>
\* a chunk size that is no number
BadChunk ==
    <<"H", "T", "T", "P", "/", "1", ".", "1", " ", "2", "0", "0", " ", "O", "K", "\r", "\n",
      "T", "r", "a", "n", "s", "f", "e", "r", "-", "E", "n", "c", "o", "d", "i", "n", "g", ":",
      " ", "c", "h", "u", "n", "k", "e", "d", "\r", "\n", "\r", "\n", "z", "z", "\r", "\n">>
\* a last chunk that CRLF does not follow
BadTrailer ==
    <<"H", "T", "T", "P", "/", "1", ".", "1", " ", "2", "0", "0", " ", "O", "K", "\r", "\n",
      "T", "r", "a", "n", "s", "f", "e", "r", "-", "E", "n", "c", "o", "d", "i", "n", "g", ":",
      " ", "c", "h", "u", "n", "k", "e", "d", "\r", "\n", "\r", "\n", "0", "\r", "\n", "X",
      "Y">>

\* the calls of the entry points in a behaviour of SpecErr
MaxErrCalls == 3

Hostile ==
    [d \in 0..1 |-> IF d = 0 THEN {ReqA, AuthUnfinished, ShortToken, CookieBad, Unfinished, ShortLine}
                    ELSE {Resp204, BadStatus, NoPhrase, NegLength, NegChunk, BadChunk, BadTrailer}]

\* the default configuration, and one that sends all headers, splits the cookies
\* and strips the Authorization header
ErrConfigs ==
    {[DefaultConfig EXCEPT !.Sink = FALSE],
     [DefaultConfig EXCEPT !.Sink = FALSE, !.Send_headers = TRUE, !.Send_all_headers = TRUE,
                           !.Split_cookie = TRUE, !.Strip_authorization = TRUE]}

ErrInit ==
    /\ \E c \in ErrConfigs : Started(c)
    /\ wire = NoWire

ErrParse ==
    /\ obs.calls < MaxErrCalls
    /\ \E d \in 0..1 : \E payload \in Hostile[d] : Parse(d, payload, 1)
    /\ UNCHANGED <<cfg, now, wire>>

ErrFin ==
    /\ obs.calls < MaxErrCalls
    /\ \E d \in 0..1 : ReceivedFin(d, 1)
    /\ UNCHANGED <<cfg, now, wire>>

ErrGap ==
    /\ obs.calls < MaxErrCalls
    /\ \E d \in 0..1 : GapInStream(d, 1)
    /\ UNCHANGED <<cfg, now, wire>>

ErrNext ==
    \/ ErrParse
    \/ ErrFin
    \/ ErrGap

SpecErr == ErrInit /\ [][ErrNext]_vars

\* the step is a call of an entry point
Called == obs'.calls = obs.calls + 1
\* the call of the step was a Parse that met a stream-fatal error: messageParser
\* found the stream invalid or failed in it, or the buffer cap was exceeded
StreamFatal ==
    /\ Called
    /\ obs'.last.op = "Parse"
    /\ \/ obs'.last.how \in {"invalid", "too large"}
       \/ obs'.last.how = "panic" /\ obs'.log[Len(obs'.log)].where = "messageParser"
\* the step leaves the stream of the direction opposite to the call's as it was
OtherDirectionKept == priv'[1 - obs'.last.dir] = priv[1 - obs'.last.dir]

\* C3: a Parse that meets a stream-fatal error on direction d leaves the stream of
\* the opposite direction, with its buffer, offsets, state and message, and the
\* transaction table as they were.
C3_OnlyThatDirection ==
    [][StreamFatal => OtherDirectionKept /\ transactionsMap' = transactionsMap]_vars

\* C9: every call of Parse, ReceivedFin and GapInStream returns normally, without a
\* slice bound or an index out of range, and the private data it returns still
\* holds the stream of the opposite direction.
C9_ReturnsNormally ==
    [][Called => obs'.last.how # "panic" /\ OtherDirectionKept]_vars

\* a ReceivedFin failed, which nothing recovers
C9_Witness == worker.pc = "crashed"

(***************************************************************************)
(* SpecRedact: a request with a form body or an Authorization header, and  *)
(* the response to it, under the password configuration and each of the    *)
(* header-selection policies.                                              *)
(***************************************************************************)
\* a form whose body begins with the keyword
FormFirst ==
    <<"P", "O", "S", "T", " ", "/", "l", " ", "H", "T", "T", "P", "/", "1", ".", "1", "\r",
      "\n", "C", "o", "n", "t", "e", "n", "t", "-", "T", "y", "p", "e", ":", " ", "x", "-",
      "u", "r", "l", "e", "n", "c", "o", "d", "e", "d", "\r", "\n", "C", "o", "n", "t", "e",
      "n", "t", "-", "L", "e", "n", "g", "t", "h", ":", " ", "1", "1", "\r", "\n", "\r", "\n",
      "p", "a", "s", "s", "=", "a", "b", "&", "u", "=", "1">>
\* a form with the keyword in the middle of the body
FormMid ==
    <<"P", "O", "S", "T", " ", "/", "l", " ", "H", "T", "T", "P", "/", "1", ".", "1", "\r",
      "\n", "C", "o", "n", "t", "e", "n", "t", "-", "T", "y", "p", "e", ":", " ", "x", "-",
      "u", "r", "l", "e", "n", "c", "o", "d", "e", "d", "\r", "\n", "C", "o", "n", "t", "e",
      "n", "t", "-", "L", "e", "n", "g", "t", "h", ":", " ", "1", "9", "\r", "\n", "\r", "\n",
      "u", "=", "1", "&", "p", "a", "s", "s", "=", "s", "e", "c", "r", "e", "t", "&", "v", "=",
      "2">>
\* a form whose body ends with the value
FormShort ==
    <<"P", "O", "S", "T", " ", "/", "l", " ", "H", "T", "T", "P", "/", "1", ".", "1", "\r",
      "\n", "C", "o", "n", "t", "e", "n", "t", "-", "T", "y", "p", "e", ":", " ", "x", "-",
      "u", "r", "l", "e", "n", "c", "o", "d", "e", "d", "\r", "\n", "C", "o", "n", "t", "e",
      "n", "t", "-", "L", "e", "n", "g", "t", "h", ":", " ", "1", "1", "\r", "\n", "\r", "\n",
      "u", "=", "1", "&", "p", "a", "s", "s", "=", "a", "b">>
\* a form with an empty value
FormEmpty ==
    <<"P", "O", "S", "T", " ", "/", "l", " ", "H", "T", "T", "P", "/", "1", ".", "1", "\r",
      "\n", "C", "o", "n", "t", "e", "n", "t", "-", "T", "y", "p", "e", ":", " ", "x", "-",
      "u", "r", "l", "e", "n", "c", "o", "d", "e", "d", "\r", "\n", "C", "o", "n", "t", "e",
      "n", "t", "-", "L", "e", "n", "g", "t", "h", ":", " ", "1", "3", "\r", "\n", "\r", "\n",
      "u", "=", "1", "&", "p", "a", "s", "s", "=", "&", "v", "=", "2">>
\* a form with a value of 120 bytes
FormLong ==
    <<"P", "O", "S", "T", " ", "/", "l", " ", "H", "T", "T", "P", "/", "1", ".", "1", "\r",
      "\n", "C", "o", "n", "t", "e", "n", "t", "-", "T", "y", "p", "e", ":", " ", "x", "-",
      "u", "r", "l", "e", "n", "c", "o", "d", "e", "d", "\r", "\n", "C", "o", "n", "t", "e",
      "n", "t", "-", "L", "e", "n", "g", "t", "h", ":", " ", "1", "2", "9", "\r", "\n", "\r",
      "\n", "u", "=", "1", "&", "p", "a", "s", "s", "=", "x", "x", "x", "x", "x", "x", "x",
      "x", "x", "x", "x", "x", "x", "x", "x", "x", "x", "x", "x", "x", "x", "x", "x", "x", "x",
      "x", "x", "x", "x", "x", "x", "x", "x", "x", "x", "x", "x", "x", "x", "x", "x", "x", "x",
      "x", "x", "x", "x", "x", "x", "x", "x", "x", "x", "x", "x", "x", "x", "x", "x", "x", "x",
      "x", "x", "x", "x", "x", "x", "x", "x", "x", "x", "x", "x", "x", "x", "x", "x", "x", "x",
      "x", "x", "x", "x", "x", "x", "x", "x", "x", "x", "x", "x", "x", "x", "x", "x", "x", "x",
      "x", "x", "x", "x", "x", "x", "x", "x", "x", "x", "x", "x", "x", "x", "x", "x", "x", "x",
      "x", "x", "x", "x", "x">>
\* a request whose first header is Authorization
AuthFirst ==
    <<"G", "E", "T", " ", "/", "a", " ", "H", "T", "T", "P", "/", "1", ".", "1", "\r", "\n",
      "A", "u", "t", "h", "o", "r", "i", "z", "a", "t", "i", "o", "n", ":", " ", "B", "a", "s",
      "i", "c", " ", "a", "b", "c", "\r", "\n", "\r", "\n">>
\* a request with Authorization between two other headers
AuthSecond ==
    <<"G", "E", "T", " ", "/", "a", " ", "H", "T", "T", "P", "/", "1", ".", "1", "\r", "\n",
      "H", "o", "s", "t", ":", " ", "h", "\r", "\n", "A", "u", "t", "h", "o", "r", "i", "z",
      "a", "t", "i", "o", "n", ":", " ", "B", "a", "s", "i", "c", " ", "a", "b", "c", "\r",
      "\n", "A", "c", "c", "e", "p", "t", ":", " ", "x", "\r", "\n", "\r", "\n">>

b_pass == <<"p", "a", "s", "s", "=">>

RedactRequests == {FormFirst, FormMid, FormShort, FormEmpty, FormLong, AuthFirst, AuthSecond, ReqA}

\* hide_keywords = ["pass="], strip_authorization, include_body_for = ["urlencoded"]
PasswordConfig ==
    [DefaultConfig EXCEPT !.Hide_keywords = <<b_pass>>, !.Strip_authorization = TRUE,
                          !.Include_body_for = <<b_urlencoded>>]

\* send_all_headers; send_headers with and without authorization; no headers
RedactConfigs ==
    {[PasswordConfig EXCEPT !.Send_headers = TRUE, !.Send_all_headers = TRUE],
     [PasswordConfig EXCEPT !.Send_headers = TRUE,
                            !.Headers_whitelist = {b_content_type, b_authorization}],
     [PasswordConfig EXCEPT !.Send_headers = TRUE, !.Headers_whitelist = {b_content_type}],
     PasswordConfig}

RedactInit ==
    /\ \E c \in RedactConfigs : Started(c)
    /\ \E req \in RedactRequests :
          wire = [NoWire EXCEPT !.bytes = [d \in 0..1 |-> IF d = 0 THEN req ELSE Resp204]]

\* the request arrives, whole
RedactRequest ==
    /\ wire.sent[0] = 0
    /\ Parse(0, wire.bytes[0], 1)
    /\ wire' = [wire EXCEPT !.sent[0] = Len(wire.bytes[0])]
    /\ UNCHANGED <<cfg, now>>

\* the response arrives, whole
RedactResponse ==
    /\ wire.sent[0] > 0 /\ wire.sent[1] = 0
    /\ Parse(1, wire.bytes[1], 1)
    /\ wire' = [wire EXCEPT !.sent[1] = Len(wire.bytes[1])]
    /\ UNCHANGED <<cfg, now>>

RedactNext ==
    \/ RedactRequest
    \/ RedactResponse
    \/ SinkReceive

SpecRedact == RedactInit /\ [][RedactNext]_vars

\* the request on the wire: the length of its first line and headers, its body,
\* and whether it is a form with a body
HeadLen(req) == bytes_Index(req, CRLF \o CRLF) + 4
BodyOf(req) == SliceFrom(req, HeadLen(req))
IsForm(req) ==
    Len(BodyOf(req)) > 0 /\ strings_Contains(Slice(req, 0, HeadLen(req)), b_urlencoded)
\* the value of the keyword's first occurrence in the body: from ValueFrom to ValueTo
ValueFrom(body, keyword) == bytes_Index(body, keyword) + Len(keyword)
ValueLen(body, keyword) ==
    IF bytes_IndexAny(SliceFrom(body, ValueFrom(body, keyword)), {"&", " ", "\r", "\n"}) = -1
        THEN Len(body) - ValueFrom(body, keyword)
    ELSE bytes_IndexAny(SliceFrom(body, ValueFrom(body, keyword)), {"&", " ", "\r", "\n"})

\* C4: in the request_raw of every transaction sent for a form with a body, the
\* value that follows the first occurrence of each keyword, wherever in the body
\* the keyword is, holds only stars when it is shorter than 120 bytes.
C4_KeywordRedacted ==
    \A j \in Emits :
        (IsForm(wire.bytes[0]) /\ Len(obs.log[j].event["request_raw"]) = Len(wire.bytes[0])) =>
            \A x \in 1..Len(cfg.Hide_keywords) :
                (/\ bytes_Index(BodyOf(wire.bytes[0]), cfg.Hide_keywords[x]) # -1
                 /\ ValueLen(BodyOf(wire.bytes[0]), cfg.Hide_keywords[x]) < 120)
                => \A q \in 1..ValueLen(BodyOf(wire.bytes[0]), cfg.Hide_keywords[x]) :
                       BodyOf(obs.log[j].event["request_raw"])
                           [ValueFrom(BodyOf(wire.bytes[0]), cfg.Hide_keywords[x]) + q] = "*"

\* the request on the wire: where "Authorization:" is among its headers, and the
\* request with the bytes from the end of that literal to the next CRLF starred
AuthAt(req) == bytes_Index(Slice(req, 0, HeadLen(req)), auth_text)
ValueEnd(req, from) == from + bytes_Index(SliceFrom(req, from), CRLF)
Scrubbed(req) ==
    Stars(req, AuthAt(req) + Len(auth_text), ValueEnd(req, AuthAt(req) + Len(auth_text)))
\* the headers the transaction shows
ShownHeaders(event) ==
    IF "request_headers" \in DOMAIN event["http"] THEN event["http"]["request_headers"]
    ELSE EmptyMap

\* C5: with strip_authorization, the request_raw of every transaction sent for a
\* request that has "Authorization:" among its headers is the request with the
\* bytes from the end of that literal to the next CRLF starred and no other byte
\* changed, and the header map has "*" for authorization.
C5_AuthorizationScrubbed ==
    \A j \in Emits :
        (cfg.Strip_authorization /\ AuthAt(wire.bytes[0]) # -1) =>
            /\ obs.log[j].event["request_raw"] = Scrubbed(wire.bytes[0])
            /\ MapGet(ShownHeaders(obs.log[j].event), b_authorization) = b_star

(***************************************************************************)
(* SpecClose: a request, and a response whose body the close of the        *)
(* connection ends, delivered in segments of any sizes; the server closes  *)
(* (FIN) once the headers are out, at any point of the body, and nothing   *)
(* follows a FIN on its direction.                                         *)
(***************************************************************************)
\* the segments the response arrives in, at most, and the FINs reported
MaxCloseSegments == 3
MaxFins == 2

\* HTTP/1.1 200 OK, Connection: close, and a body of 4 bytes
RespConnClose ==
    HTTP11 \o SP \o <<"2", "0", "0">> \o SP \o <<"O", "K">> \o CRLF
    \o <<"C", "o", "n", "n", "e", "c", "t", "i", "o", "n", ":", " ", "c", "l", "o", "s", "e">> \o CRLF
    \o CRLF \o <<"b", "o", "d", "y">>

CloseWires ==
    {[NoWire EXCEPT !.bytes = [d \in 0..1 |-> IF d = 0 THEN ReqA ELSE resp]] :
        resp \in {RespClose, RespConnClose}}

CloseInit ==
    /\ Started(DefaultConfig)
    /\ wire \in CloseWires

\* the FINs reported so far: the calls that were not segments
Fins == obs.calls - wire.segments[0] - wire.segments[1]

CloseParse ==
    /\ Fins = 0
    /\ SegParseUpTo(MaxCloseSegments)

\* the server closes: the reassembler reports the FIN of direction 1
CloseFin ==
    /\ SegDir = 1
    /\ wire.sent[1] >= HeadLen(wire.bytes[1])
    /\ Fins < MaxFins
    /\ ReceivedFin(1, 1)
    /\ UNCHANGED <<cfg, now, wire>>

CloseNext ==
    \/ CloseParse
    \/ CloseFin
    \/ SinkReceive

SpecClose == CloseInit /\ [][CloseNext]_vars

MaxChunkSegments == 3

\* the headers of a chunked response, with a content type
ChunkHead ==
    <<"H", "T", "T", "P", "/", "1", ".", "1", " ", "2", "0", "0", " ", "K", "\r", "\n", "C",
      "o", "n", "t", "e", "n", "t", "-", "T", "y", "p", "e", ":", " ", "t", "\r", "\n", "T",
      "r", "a", "n", "s", "f", "e", "r", "-", "E", "n", "c", "o", "d", "i", "n", "g", ":", " ",
      "c", "h", "u", "n", "k", "e", "d", "\r", "\n", "\r", "\n">>
\* the headers of a chunked response that also has a Content-Length
ChunkHeadLength ==
    <<"H", "T", "T", "P", "/", "1", ".", "1", " ", "2", "0", "0", " ", "K", "\r", "\n", "C",
      "o", "n", "t", "e", "n", "t", "-", "L", "e", "n", "g", "t", "h", ":", " ", "7", "\r",
      "\n", "T", "r", "a", "n", "s", "f", "e", "r", "-", "E", "n", "c", "o", "d", "i", "n",
      "g", ":", " ", "c", "h", "u", "n", "k", "e", "d", "\r", "\n", "\r", "\n">>
\* the chunks, each after its size line, and the zero-size chunk line with its CRLF
ChunkedBody ==
    <<"3", "\r", "\n", "h", "e", "l", "\r", "\n", "2", "\r", "\n", "l", "o", "\r", "\n", "0",
      "\r", "\n", "\r", "\n">>
\* the chunk data, in order
ChunkData ==
    <<"h", "e", "l", "l", "o">>

b_t == <<"t">>

\* send_all_headers, and include_body_for = ["t"]
ChunkConfig ==
    [DefaultConfig EXCEPT !.Send_headers = TRUE, !.Send_all_headers = TRUE,
                          !.Include_body_for = <<b_t>>]

ChunkWires ==
    {[NoWire EXCEPT !.bytes = [d \in 0..1 |-> IF d = 0 THEN ReqA ELSE head \o ChunkedBody]] :
        head \in {ChunkHead, ChunkHeadLength}}

ChunkInit ==
    /\ Started(ChunkConfig)
    /\ wire \in ChunkWires

ChunkParse == SegParseUpTo(MaxChunkSegments)

ChunkNext ==
    \/ ChunkParse
    \/ SinkReceive

SpecChunk == ChunkInit /\ [][ChunkNext]_vars

\* C12: however the bytes of a chunked message are cut into segments, the message
\* completes with its last byte; its content_length is the sum of the chunk sizes,
\* its chunked_body (which response_raw shows after the headers when the content
\* type is included) is the chunk data in order, and its end is the offset just
\* past the CRLF after the zero-size chunk line: nothing of it stays in the buffer.
C12_ChunkedFraming ==
    /\ Delivered => Emits # {}
    /\ \A j \in Emits :
          /\ wire.sent[1] = Len(wire.bytes[1])
          /\ obs.log[j].event["http"]["content_length"] = Len(ChunkData)
          /\ b_content_type \in DOMAIN obs.log[j].event["http"]["response_headers"]
             => obs.log[j].event["response_raw"]
                    = Slice(wire.bytes[1], 0, HeadLen(wire.bytes[1])) \o ChunkData
          /\ priv[1].data = <<>>

\* C12 for the chunked messages that have no Content-Length header
C12_WithoutLength ==
    wire.bytes[1] = ChunkHead \o ChunkedBody => C12_ChunkedFraming

(***************************************************************************)
(* Further properties of Spec                                              *)
(***************************************************************************)
\* the timers that are armed
Armed == {id \in 1..Len(timers) : timers[id].state = "armed"}
\* the history ends with request number no, which found the entry of another
\* request in the table
SecondRequest(no) ==
    \E r \in 1..Len(obs.log) :
        /\ obs.log[r].ev = "request" /\ obs.log[r].no = no /\ obs.log[r].replaced # 0
        /\ \A k \in (r + 1)..Len(obs.log) : obs.log[k].ev = "warn"

\* C13: when a request completes on a flow whose earlier request has no response
\* yet, the table holds the entry of the second request, with its method, target
\* and timestamp; the only timer armed is the one of the second request, running
\* from it; and the warning for the dropped request is recorded.
C13_SecondRequestReplaces ==
    \A no \in 1..MaxCalls : SecondRequest(no) =>
        /\ transactionsMap # Nil
        /\ transactionsMap.no = no
        /\ transactionsMap.Method = GET
        /\ Armed \subseteq {transactionsMap.timer}
        /\ timers[transactionsMap.timer].no = no
        /\ timers[transactionsMap.timer].deadline = transactionsMap.ts + TransactionTimeout
        /\ obs.log[Len(obs.log)] = [ev |-> "warn", what |-> "two requests"]

\* the requests and responses the handlers were given, in their order
Exchanges == SelectSeq(obs.log, LAMBDA e : e.ev \in {"request", "response"})
\* two requests completed, the second before the response to the first, then two
\* responses completed; no timer ran and every send is done
Pipelined ==
    /\ Len(Exchanges) = 4
    /\ Exchanges[1].ev = "request" /\ Exchanges[2].ev = "request"
    /\ Exchanges[3].ev = "response" /\ Exchanges[4].ev = "response"
    /\ \A k \in 1..Len(obs.log) : obs.log[k].ev # "expire"
    /\ worker.pc = "idle"

\* C14: pipelined requests give their transactions in request order: after requests
\* 1 and 2 and then two responses, the transactions sent are that of request 1 and
\* then that of request 2.
C14_RequestOrder ==
    Pipelined =>
        [j \in 1..Len(EmitsOf(obs.log)) |-> EmitsOf(obs.log)[j].event["no"]] = <<1, 2>>

\* C15: the worker never waits in the send to the sink: a response that finds its
\* entry leaves Parse or ReceivedFin returned, whatever the channel holds, with the
\* entry removed from the table and its timer no longer armed.
C15_NeverBlocks ==
    /\ worker.pc # "send"
    /\ \A j \in Responses : obs.log[j].found # 0 =>
          /\ ~Pending(obs.log[j].found)
          /\ \A id \in Armed : timers[id].no # obs.log[j].found

(***************************************************************************)
(* A flow that loses bytes: the reassembler reports the hole with          *)
(* GapInStream and goes on with the segments that follow                   *)
(***************************************************************************)
MaxGapSegments == 2
\* the most bytes a hole loses
MaxLost == 9

\* GET /a HTTP/1.1 with a Host header, and HTTP/1.1 204 N with a Server header
ReqHost == GET \o SP \o <<"/", "a">> \o SP \o HTTP11 \o CRLF
           \o <<"H", "o", "s", "t", ":", " ", "h">> \o CRLF \o CRLF
RespServer == HTTP11 \o SP \o <<"2", "0", "4">> \o SP \o <<"N">> \o CRLF
              \o <<"S", "e", "r", "v", "e", "r", ":", " ", "s">> \o CRLF \o CRLF

\* one message in each direction; lost[d] is the number of bytes of direction d
\* that arrived before its hole, 0 while it has none
GapInit ==
    /\ Started(DefaultConfig)
    /\ wire = [bytes |-> [d \in 0..1 |-> IF d = 0 THEN ReqHost ELSE RespServer],
               sent |-> [d \in 0..1 |-> 0],
               segments |-> [d \in 0..1 |-> 0],
               lost |-> [d \in 0..1 |-> 0]]

GapParse == SegParseUpTo(MaxGapSegments)

\* k bytes in the middle of a message are lost: the reassembler calls GapInStream
\* on the direction, and the bytes after the hole are still to come
GapLoss ==
    /\ wire.sent[SegDir] > 0
    /\ wire.lost[SegDir] = 0
    /\ \E k \in 1..(SegLeft - 1) :
          /\ k <= MaxLost
          /\ wire' = [wire EXCEPT !.sent[SegDir] = @ + k, !.lost[SegDir] = wire.sent[SegDir]]
    /\ GapInStream(SegDir, 1)
    /\ now' = now + SegmentGap
    /\ UNCHANGED cfg

GapNext ==
    \/ GapParse
    \/ GapLoss
    \/ SinkReceive

SpecGap == GapInit /\ [][GapNext]_vars

\* the log entries of the messages handed to the transaction table, by direction
Handed(d) == {j \in 1..Len(obs.log) : obs.log[j].ev = (IF d = 0 THEN "request" ELSE "response")}

\* C16: once GapInStream was reported on a direction in the middle of its message,
\* no message of that direction is handed to the transaction table and none is
\* sent: such a message would join the bytes before the hole with those after it.
C16_GapInvalidates ==
    /\ \A d \in 0..1 : wire.lost[d] > 0 => Handed(d) = {}
    /\ wire.lost[1] > 0 => Emits = {}

(***************************************************************************)
(* Further properties of SpecSeg                                           *)
(***************************************************************************)
\* the stream of direction d as the next Parse would hand it to messageParser
Remaining(d) == IF priv[d].message = Nil THEN [priv[d] EXCEPT !.message = HttpMessage(now)]
                ELSE priv[d]

\* the message of stream s has a body of a fixed length, and all of it is in the buffer
FixedBodyDone(s) ==
    /\ s.message # Nil
    /\ s.parseState = BODY
    /\ \/ s.message.hasContentLength
       \/ ~(\/ s.message.connection = b_close
            \/ /\ s.message.version_major = 1
               /\ s.message.version_minor = 0
               /\ s.message.connection # b_keep_alive)
    /\ s.message.ContentLength - s.bodyReceived <= Len(s.data) - s.parseOffset

\* C17: when Parse has returned and kept the stream, no message whose last byte is
\* in the buffer is left there: the parser run on what remains reports advance, and
\* no message waits in BODY with all the bytes of its fixed-length body received.
C17_DrivenToAdvance ==
    \A d \in 0..1 :
        (worker.pc = "idle" /\ priv[d] # Nil) =>
            /\ \A capLimited \in BOOLEAN : ~messageParser(Remaining(d), capLimited).complete
            /\ ~FixedBodyDone(priv[d])

(***************************************************************************)
(* Further properties of SpecClose                                         *)
(***************************************************************************)
\* the offsets of message m are in order
Ordered(m) == m.start <= m.headerOffset /\ m.headerOffset <= m.bodyOffset /\ m.bodyOffset <= m.end

\* the stream that the Parse of the step, on direction d, hands to messageParser: the
\* payload is the bytes of the wire that the step delivers
ParseInput(d) ==
    IF priv[d] = Nil
        THEN HttpStream(SubSeq(wire.bytes[d], wire.sent[d] + 1, wire'.sent[d]), now)
    ELSE [priv[d] EXCEPT
             !.data = @ \o SubSeq(wire.bytes[d], wire.sent[d] + 1, wire'.sent[d]),
             !.arrived = @ \o [i \in 1..(wire'.sent[d] - wire.sent[d]) |-> now],
             !.message = IF @ = Nil THEN HttpMessage(now) ELSE @]

\* the step is a ReceivedFin, or a Parse, that hands a message over
FinHandsOver == Called /\ obs'.last.op = "ReceivedFin" /\ obs'.last.how # "nothing"
ParseHandsOver == Called /\ obs'.last.op = "Parse" /\ obs'.last.how \in {"complete", "blocked"}

\* C18: a message that Parse or ReceivedFin hands to censorPasswords and handleHttp
\* has start <= headerOffset <= bodyOffset <= end, and the raw bytes handed over
\* are the bytes start..end of the buffer.
C18_OffsetsOrdered ==
    [][/\ FinHandsOver =>
            /\ Ordered(priv[obs'.last.dir].message)
            /\ Len(priv[obs'.last.dir].data) = priv[obs'.last.dir].message.end
       /\ ParseHandsOver =>
            \A capLimited \in BOOLEAN :
                Ordered(messageParser(ParseInput(obs'.last.dir), capLimited).s.message)]_vars

(***************************************************************************)
(* The framing decision at the end of the headers: one message, of every   *)
(* kind, status code, Transfer-Encoding and Content-Length                 *)
(***************************************************************************)
MaxFrameSegments == 1

FrameStatuses == {100, 199, 200, 204, 304}
StatusText(st) ==
    CASE st = 100 -> <<"1", "0", "0">>
      [] st = 199 -> <<"1", "9", "9">>
      [] st = 200 -> <<"2", "0", "0">>
      [] st = 204 -> <<"2", "0", "4">>
      [] st = 304 -> <<"3", "0", "4">>

\* the first line of a request, and of a response with status code st
FirstLine(kind, st) ==
    IF kind = "request" THEN GET \o SP \o <<"/", "a">> \o SP \o HTTP11 \o CRLF
    ELSE HTTP11 \o SP \o StatusText(st) \o SP \o <<"K">> \o CRLF

\* the Content-Length header: none (-1), 0 or 2
LengthLine(cl) ==
    IF cl = -1 THEN <<>>
    ELSE <<"C", "o", "n", "t", "e", "n", "t", "-", "L", "e", "n", "g", "t", "h", ":", " ">> \o (IF cl = 0 THEN <<"0">> ELSE <<"2">>) \o CRLF

\* the Transfer-Encoding header: none, chunked, or Chunked
EncodingLine(te) ==
    IF te = "none" THEN <<>>
    ELSE <<"T", "r", "a", "n", "s", "f", "e", "r", "-", "E", "n", "c", "o", "d", "i", "n",
           "g", ":", " ">>
         \o (IF te = "chunked" THEN b_chunked ELSE <<"C", "h", "u", "n", "k", "e", "d">>) \o CRLF

\* the message, with two bytes after its headers or none
FrameBytes(kind, st, te, cl, more) ==
    FirstLine(kind, st) \o LengthLine(cl) \o EncodingLine(te) \o CRLF
    \o (IF more THEN <<"x", "y">> ELSE <<>>)

FrameWire(kind, st, te, cl, more) ==
    [bytes |-> [d \in 0..1 |-> IF (d = 0) = (kind = "request")
                                   THEN FrameBytes(kind, st, te, cl, more) ELSE <<>>],
     sent |-> [d \in 0..1 |-> 0], segments |-> [d \in 0..1 |-> 0],
     kind |-> kind, status |-> st, te |-> te, cl |-> cl, more |-> more]

FrameWires ==
    {FrameWire("request", 0, te, cl, more) :
        te \in {"none", "chunked", "Chunked"}, cl \in {-1, 0, 2}, more \in BOOLEAN}
    \cup {FrameWire("response", st, te, cl, more) :
        st \in FrameStatuses, te \in {"none", "chunked", "Chunked"}, cl \in {-1, 0, 2},
        more \in BOOLEAN}

FrameInit ==
    /\ Started(DefaultConfig)
    /\ wire \in FrameWires

FrameParse == SegParseUpTo(MaxFrameSegments)

FrameNext == FrameParse

SpecFrame == FrameInit /\ [][FrameNext]_vars

\* the direction of the message, and where its headers end
FrameDir == IF wire.kind = "request" THEN 0 ELSE 1
FrameHead == HeadLen(wire.bytes[FrameDir])
\* (a), (b) and (c) of the message on the wire, each when none before it applies
FrameNoBody ==
    /\ wire.kind = "response"
    /\ (100 <= wire.status /\ wire.status < 200) \/ wire.status = 204 \/ wire.status = 304
FrameChunked == ~FrameNoBody /\ wire.te = "chunked"
FrameEmpty ==
    /\ ~FrameNoBody
    /\ ~FrameChunked
    /\ wire.cl <= 0
    /\ wire.kind = "request" \/ wire.cl = 0

\* C19: at the end of the headers, (a) a response with status 1xx, 204 or 304 is
\* complete with end = bodyOffset, whatever its Content-Length and Transfer-Encoding;
\* (b) otherwise a Transfer-Encoding of exactly "chunked" enters the chunked states,
\* whatever its Content-Length; (c) otherwise a length of 0 in a request, or in a
\* response with a Content-Length header, is complete with end = bodyOffset; (d)
\* otherwise the message enters BODY.
C19_FramingDecision ==
    Delivered =>
        /\ priv[FrameDir] # Nil
        /\ (FrameNoBody \/ FrameEmpty) =>
              /\ Cardinality(Handed(FrameDir)) = 1
              /\ priv[FrameDir].data = SliceFrom(wire.bytes[FrameDir], FrameHead)
        /\ FrameChunked =>
              /\ Handed(FrameDir) = {}
              /\ priv[FrameDir].parseState = BODY_CHUNKED_START
              /\ priv[FrameDir].parseOffset = FrameHead
              /\ priv[FrameDir].message.bodyOffset = FrameHead
        /\ (~FrameNoBody /\ ~FrameChunked /\ ~FrameEmpty /\ ~wire.more) =>
              /\ Handed(FrameDir) = {}
              /\ priv[FrameDir].parseState = BODY
              /\ priv[FrameDir].parseOffset = FrameHead
              /\ priv[FrameDir].message.bodyOffset = FrameHead
C19_Witness ==
    /\ Delivered
    /\ wire.kind = "response"
    /\ wire.status = 204
    /\ wire.te = "chunked"
    /\ wire.cl = 2
    /\ wire.more
    /\ Handed(1) # {}

(***************************************************************************)
(* Header lines that are folded: a request whose X header goes on in a     *)
(* line that begins with a space or a tab                                  *)
(***************************************************************************)
MaxFoldSegments == 3

b_x == <<"x">>
b_y == <<"y">>

\* GET /a HTTP/1.1, and the X header: its first line, and its other line after
\* the space or tab
FoldFirst ==
    <<"G", "E", "T", " ", "/", "a", " ", "H", "T", "T", "P", "/", "1", ".", "1", "\r",
      "\n">>
FoldLine ==
    <<"X", ":", " ", "a", "\r", "\n">>
FoldMore ==
    <<"b", "\r", "\n">>
\* a header after the folded one
FoldOther ==
    <<"Y", ":", " ", "c", "\r", "\n">>

\* send_all_headers
FoldConfig == [DefaultConfig EXCEPT !.Send_headers = TRUE, !.Send_all_headers = TRUE]

\* the request with white space ws before the second line of the X header, with or
\* without a header after it; value is the value of the X header, from after its
\* colon to its last CRLF, without the white space around it; starts are the
\* offsets where the header lines and the empty line begin
FoldWire(ws, other) ==
    [bytes |-> [d \in 0..1 |-> IF d = 0 THEN FoldFirst \o FoldLine \o <<ws>> \o FoldMore
                                             \o (IF other THEN FoldOther ELSE <<>>) \o CRLF
                               ELSE <<>>],
     sent |-> [d \in 0..1 |-> 0], segments |-> [d \in 0..1 |-> 0],
     value |-> <<"a", "\r", "\n", ws, "b">>,
     starts |-> {Len(FoldFirst), Len(FoldFirst) + Len(FoldLine) + 1 + Len(FoldMore)}
                \cup (IF other THEN {Len(FoldFirst) + Len(FoldLine) + 1 + Len(FoldMore)
                                     + Len(FoldOther)}
                      ELSE {})]

FoldInit ==
    /\ Started(FoldConfig)
    /\ wire \in {FoldWire(ws, other) : ws \in {" ", "\t"}, other \in BOOLEAN}

FoldParse == SegParseUpTo(MaxFoldSegments)

FoldNext == FoldParse

SpecFold == FoldInit /\ [][FoldNext]_vars

\* the header map has the X header with its whole value, and no entry that is
\* not a header of the request
FoldedIn(headers) ==
    /\ DOMAIN headers \subseteq {b_x, b_y}
    /\ b_x \in DOMAIN headers => headers[b_x] = wire.value

\* C20: the value of a folded header goes up to the first CRLF that no space or tab
\* follows: parseHeader stores the whole value under the header's name and makes no
\* entry from the line that continues it; it leaves parseOffset at the start of a
\* header line, after the last CRLF of the header when it is there and where the
\* header begins while it is not.
C20_HeaderFolding ==
    /\ (priv[0] # Nil /\ priv[0].message # Nil) =>
          /\ FoldedIn(priv[0].message.Headers)
          /\ priv[0].parseState = HEADERS => priv[0].parseOffset \in wire.starts
    /\ (transactionsMap # Nil /\ "request_headers" \in DOMAIN transactionsMap.Http) =>
          FoldedIn(transactionsMap.Http["request_headers"])

(***************************************************************************)
(* Further properties of SpecRedact                                        *)
(***************************************************************************)
\* the places in request req of the Authorization value, and of the value of the
\* first occurrence of keyword in the body of a form
AuthSpan(req) ==
    IF AuthAt(req) = -1 THEN {}
    ELSE (AuthAt(req) + Len(auth_text) + 1)..ValueEnd(req, AuthAt(req) + Len(auth_text))
KeywordSpan(req, keyword) ==
    IF ~IsForm(req) \/ bytes_Index(BodyOf(req), keyword) = -1 THEN {}
    ELSE {HeadLen(req) + ValueFrom(BodyOf(req), keyword) + q :
             q \in 1..ValueLen(BodyOf(req), keyword)}
ValueSpans(req) ==
    AuthSpan(req) \cup UNION {KeywordSpan(req, cfg.Hide_keywords[x]) :
                                 x \in 1..Len(cfg.Hide_keywords)}

\* C21: censorPasswords writes only within the value of the Authorization header
\* and the values of the keywords: the request_raw of a transaction has the bytes
\* of the request at every other place, the delimiter after a value and what
\* follows it too, also after an empty value, and the response_raw has the bytes of
\* the response.
C21_OnlyValuesChange ==
    \A j \in Emits :
        /\ Len(obs.log[j].event["request_raw"]) \in {Len(wire.bytes[0]), HeadLen(wire.bytes[0])}
        /\ \A i \in 1..Len(obs.log[j].event["request_raw"]) :
              obs.log[j].event["request_raw"][i] # wire.bytes[0][i]
                  => i \in ValueSpans(wire.bytes[0])
        /\ obs.log[j].event["response_raw"]
               = Slice(wire.bytes[1], 0, Len(obs.log[j].event["response_raw"]))

(***************************************************************************)
(* The buffer of a stream, step by step                                    *)
(***************************************************************************)
\* the buffer of direction d before the step, with the bytes the step delivers
Total(d) ==
    (IF priv[d] = Nil THEN <<>> ELSE priv[d].data)
    \o SubSeq(wire.bytes[d], wire.sent[d] + 1, wire'.sent[d])

\* the stream is as PrepareForNewMessage leaves it
Reset(s) == s.parseOffset = 0 /\ s.parseState = START /\ s.bodyReceived = 0 /\ s.message = Nil

\* the step hands a complete message of direction d over, and the stream is then
\* reset with its buffer shortened by the message's end bytes
ShortenedByEnd(d) ==
    /\ Len(obs'.log) > Len(obs.log)
    /\ Reset(priv'[d])
    /\ \E capLimited \in BOOLEAN :
          /\ messageParser(ParseInput(d), capLimited).complete
          /\ priv'[d].data
                = SliceFrom(Total(d), messageParser(ParseInput(d), capLimited).s.message.end)

\* C22: a stream has 0 <= parseOffset <= len(data) in every state; a step that
\* changes a stream leaves in its buffer the bytes it had and the bytes that
\* arrived, or it has handed a complete message over, and then the buffer has
\* lost that message's end bytes at its front and parseOffset = 0, parseState =
\* START, bodyReceived = 0 and there is no current message.
C22_BufferDiscipline ==
    [][\A d \in 0..1 :
          priv'[d] # Nil =>
              /\ 0 <= priv'[d].parseOffset
              /\ priv'[d].parseOffset <= Len(priv'[d].data)
              /\ priv'[d] # priv[d] => (priv'[d].data = Total(d) \/ ShortenedByEnd(d))]_vars
C22_Witness ==
    /\ priv[0] # Nil
    /\ Reset(priv[0])
    /\ priv[0].data = ReqB
    /\ Handed(0) # {}

(***************************************************************************)
(* The end of a chunk: a chunked response alone on its flow, cut into      *)
(* segments at every place                                                 *)
(***************************************************************************)
MaxEndSegments == 3

\* HTTP/1.1 200 K with Transfer-Encoding: chunked
ChunkHeadAlone ==
    HTTP11 \o SP \o <<"2", "0", "0">> \o SP \o <<"K">> \o CRLF
    \o <<"T", "r", "a", "n", "s", "f", "e", "r", "-", "E", "n", "c", "o", "d", "i", "n", "g",
         ":", " ">> \o b_chunked \o CRLF \o CRLF

EndInit ==
    /\ Started(DefaultConfig)
    /\ wire = [NoWire EXCEPT !.bytes = [d \in 0..1 |-> IF d = 0 THEN <<>>
                                                       ELSE ChunkHeadAlone \o ChunkedBody]]

EndParse == SegParseUpTo(MaxEndSegments)

EndNext == EndParse

SpecChunkEnd == EndInit /\ [][EndNext]_vars

\* in the stream s: the bytes of the current chunk still to come, and the bytes
\* of the buffer that are not read
Want(s) == s.message.chunked_length - s.bodyReceived
Unread(s) == Len(s.data) - s.parseOffset

\* the step is a Parse of the response that begins in BODY_CHUNKED and, with the
\* bytes that arrive, has the rest of the chunk but not the CRLF after it
AtChunkEnd ==
    /\ wire'.sent[1] > wire.sent[1]
    /\ priv[1] # Nil
    /\ priv[1].message # Nil
    /\ priv[1].parseState = BODY_CHUNKED
    /\ Len(Total(1)) - priv[1].parseOffset >= Want(priv[1])
    /\ Len(Total(1)) - priv[1].parseOffset < Want(priv[1]) + 2

\* C23: a Parse that finds in BODY_CHUNKED at least the rest of the chunk and
\* fewer than two bytes after it reports advance and leaves parseOffset,
\* bodyReceived, chunked_body, ContentLength and parseState as they were; no Parse
\* fails on a read outside the buffer, parseOffset stays within the buffer, and
\* chunked_body holds only bytes of the chunks, never the CRLF after one.
C23_ChunkBoundary ==
    [][/\ AtChunkEnd =>
            /\ obs'.last.how = "advance"
            /\ priv'[1] # Nil
            /\ priv'[1].parseOffset = priv[1].parseOffset
            /\ priv'[1].bodyReceived = priv[1].bodyReceived
            /\ priv'[1].parseState = BODY_CHUNKED
            /\ priv'[1].message = priv[1].message
       /\ obs'.last.how # "panic"
       /\ (priv'[1] # Nil /\ priv'[1].message # Nil) =>
            /\ priv'[1].parseOffset <= Len(priv'[1].data)
            /\ Len(priv'[1].message.chunked_body) <= Len(ChunkData)
            /\ priv'[1].message.chunked_body
                  = SubSeq(ChunkData, 1, Len(priv'[1].message.chunked_body))]_vars
\* a chunk begun in one segment, whose rest came in another without its CRLF
C23_Witness ==
    /\ priv[1] # Nil
    /\ priv[1].message # Nil
    /\ priv[1].parseState = BODY_CHUNKED
    /\ priv[1].bodyReceived > 0
    /\ Unread(priv[1]) > 0
    /\ Unread(priv[1]) >= Want(priv[1])
    /\ Unread(priv[1]) < Want(priv[1]) + 2

====
